---- MODULE Spec2Model ----
(***************************************************************************)
(* A model of tingly_agent_shell: the one-shot Shell of                    *)
(* tingly_agent_shell/__init__.py (environment tracking, export parsing,   *)
(* fork, close) and the persistent SessionShell of session_shell.py.       *)
(*                                                                         *)
(* Text is modelled as a sequence of one-character strings, so that the    *)
(* regular expressions of the source can be modelled by what they match.   *)
(* A dict is a function from keys (texts) to values (texts); dict objects  *)
(* live in a heap and a Shell holds a reference to its own, as in Python.  *)
(***************************************************************************)
EXTENDS Integers, Sequences, FiniteSets, TLC

VARIABLES
    closed,     \* Shell._closed, per Shell object
    env,        \* Shell._env: the reference each Shell holds to its dict object
    heap,       \* the dict objects, by reference
    config,     \* Shell.config, the fields read after construction: [setup_rc]
    parent,     \* Shell.parent: a Shell object, or NoShell
    last,       \* the call made in the last step, and how it ended if it has
    calls,      \* the number of calls made so far
    persistent_process, \* SessionShell._persistent_process: a child process, or NoProcess
    procs,      \* the child processes started so far: [alive, stdin, environ]
    lock,       \* the base shell's _lock: [holder, waiters], the task that holds it
                \* (or NoTask) and the tasks queued for it, first come first
    task,       \* the callers of the SessionShell: where each is in its call
    result,     \* the SessionShell call that ended in the last step, and how
    child,      \* the commands the persistent child has read and not completed
    pipe,       \* the lines on the child's stdout that no readline has returned yet
    reader,     \* the read loop of _execute_on_persistent_process, line by line
    snapshots,  \* the dicts returned to the caller: those of get_all_env as heap
                \* references, that of _parse_export_command as it is
    hook,       \* the EchoMarkerHook object: [enabled, execution_counter], or None
    contexts,   \* the context dict of each call the hook has seen
    records     \* the ExecuteResult objects constructed so far

shellVars == <<closed, env, heap, config, parent>>
sessionVars == <<persistent_process, procs, lock, task, result>>
readVars == <<child, pipe, reader>>
hookVars == <<hook, contexts, records>>
vars == <<closed, env, heap, config, parent, last, calls, persistent_process, procs, lock, task,
          result, child, pipe, reader, snapshots, hook, contexts, records>>

(***************************************************************************)
(* Bounds                                                                  *)
(***************************************************************************)
MaxShells == 2
MaxCalls == 3
MaxSessionCalls == 3
MaxTasks == 2
MaxReadCalls == 2   \* calls made one after another on a started session
MaxLines == 2       \* lines a command prints
MaxSnapshots == 2   \* dicts the caller gets from get_all_env

(***************************************************************************)
(* Characters and texts                                                    *)
(***************************************************************************)
WordChars == {"A", "B", "K", "H", "P", "W", "D", "a", "b", "h", "e", "x", "p",
              "o", "r", "t", "i", "1", "2", "4", "c", "s", "l", "5",
              "S", "T", "E", "R", "N", "V", "d", "w", "_"}
SpaceChars == {" "}
OtherChars == {"=", "'", "\"", "$", "{", "}", "-", ";", "/", "?"}
Alphabet == WordChars \cup SpaceChars \cup OtherChars

None == <<"None">>
NoShell == 0
NoProcess == 0
NoTask == 0
Tasks == 1..MaxTasks

EXPORT == <<"e", "x", "p", "o", "r", "t">>

\* the keys and the commands the callers use
kA == <<"A">>
kB == <<"B">>
kK == <<"K">>

\* export KEY='VALUE'
ExportSQ(key, value) == EXPORT \o <<" ">> \o key \o <<"=", "'">> \o value \o <<"'">>

cmdA1 == ExportSQ(kA, <<"1">>)
cmdA2 == ExportSQ(kA, <<"2">>)
cmdB == ExportSQ(kB, <<"$", "A", "-", "2">>)
cmdK == ExportSQ(kK, <<"$", "A", "-", "$", "B">>)
cmdSpace == ExportSQ(kK, <<"a", " ", "b">>)
cmdExit == <<"e", "x", "i", "t", " ", "4", "2">>

\* echo h; sleep 5
cmdEcho == <<"e", "c", "h", "o", " ", "h", ";", " ", "s", "l", "e", "e", "p", " ", "5">>

Commands == {cmdA1, cmdA2, cmdB, cmdSpace, cmdExit, cmdEcho}

\* what a command writes to its stdout when it runs to its end
StdoutOf(command) == IF command = cmdEcho THEN <<"h">> ELSE <<>>
Prefixes(out) == {SubSeq(out, 1, n) : n \in 0..Len(out)}

\* StateShell._inject_state_tracking, line 100: between the command and the
\* tracking commands
SaveExitCode ==
    <<";", " ", "_", "_", "e", "x", "i", "t", "_", "c", "o", "d", "e", "_",
      "_", "=", "$", "?", ";", " ">>

\* the markers around the output of export -p
ENV_START ==
    <<"=", "=", "=", " ", "S", "T", "A", "T", "E", "_", "E", "N", "V", "_",
      "S", "T", "A", "R", "T", " ", "=", "=", "=">>
\* and its end
ENV_END ==
    <<"=", "=", "=", " ", "S", "T", "A", "T", "E", "_", "E", "N", "V", "_",
      "E", "N", "D", " ", "=", "=", "=">>

\* lines 92-95
post_tracking ==
    <<"e", "c", "h", "o", " ", "'", "=", "=", "=", " ", "S", "T", "A", "T",
      "E", "_", "P", "W", "D", "_", "S", "T", "A", "R", "T", " ", "=", "=",
      "=", "'", ";", " ", "p", "w", "d", ";", " ", "e", "c", "h", "o", " ",
      "'", "=", "=", "=", " ", "S", "T", "A", "T", "E", "_", "P", "W", "D",
      "_", "E", "N", "D", " ", "=", "=", "=", "'", ";", " ", "e", "c", "h",
      "o", " ", "'", "=", "=", "=", " ", "S", "T", "A", "T", "E", "_", "E",
      "N", "V", "_", "S", "T", "A", "R", "T", " ", "=", "=", "=", "'", ";",
      " ", "e", "x", "p", "o", "r", "t", " ", "-", "p", ";", " ", "e", "c",
      "h", "o", " ", "'", "=", "=", "=", " ", "S", "T", "A", "T", "E", "_",
      "E", "N", "V", "_", "E", "N", "D", " ", "=", "=", "=", "'">>

\* line 100: after the tracking commands
ExitSavedCode ==
    <<";", " ", "e", "x", "i", "t", " ", "$", "_", "_", "e", "x", "i", "t",
      "_", "c", "o", "d", "e", "_", "_">>

\* f"{command}; __exit_code__=$?; {post_tracking}; exit $__exit_code__"
inject_state_tracking(command) ==
    command \o SaveExitCode \o post_tracking \o ExitSavedCode

\* the commands given to a StateShell
StateCommands == {cmdA2, cmdEcho, cmdExit}

\* the commands of the setup lists and of the calls
KnownCommands ==
    Commands \cup {cmdK} \cup {inject_state_tracking(c) : c \in StateCommands}


(***************************************************************************)
(* Text helpers                                                            *)
(***************************************************************************)
\* s[i..j-1], the Python slice s[i:j] with 1-based i
Slice(s, i, j) == SubSeq(s, i, j - 1)

\* whether text p occurs in s at position i
StartsAt(s, p, i) == /\ i + Len(p) - 1 <= Len(s)
                     /\ \A n \in 1..Len(p) : s[i + n - 1] = p[n]

\* the position after the longest run of characters of class cls that starts
\* at i: what a greedy cls* consumes
RunEnd(cls, s, i) ==
    CHOOSE j \in i..(Len(s) + 1) :
        /\ \A m \in i..(j - 1) : s[m] \in cls
        /\ (j = Len(s) + 1 \/ s[j] \notin cls)

\* str.strip(c): every leading and trailing occurrence of the character c
Strip(s, c) ==
    LET first == RunEnd({c}, s, 1)
        lastp == IF first > Len(s) THEN first - 1
                 ELSE CHOOSE j \in first..Len(s) :
                        /\ s[j] # c
                        /\ \A m \in (j + 1)..Len(s) : s[m] = c
    IN  Slice(s, first, lastp + 1)

\* dict.update: the entries of u replace or extend those of m
DictUpdate(m, u) ==
    [k \in (DOMAIN m) \cup (DOMAIN u) |-> IF k \in DOMAIN u THEN u[k] ELSE m[k]]

\* dict.get(key, default)
DictGet(m, key, default) == IF key \in DOMAIN m THEN m[key] ELSE default

EmptyDict == [k \in {} |-> None]

(***************************************************************************)
(* Shell._expand_env_vars: re.sub(r'\$\{?(\w+)\}?', replace_var, value)    *)
(***************************************************************************)
\* the match of \$\{?(\w+)\}? at position i of s, if there is one
VarRefAt(s, i) ==
    LET afterDollar == i + 1
        nameStart == IF afterDollar <= Len(s) /\ s[afterDollar] = "{"
                     THEN afterDollar + 1 ELSE afterDollar
        nameEnd == RunEnd(WordChars, s, nameStart)
        matchEnd == IF nameEnd <= Len(s) /\ s[nameEnd] = "}"
                    THEN nameEnd + 1 ELSE nameEnd
    IN  IF i <= Len(s) /\ s[i] = "$" /\ nameStart <= Len(s) + 1 /\ nameEnd > nameStart
        THEN [ok |-> TRUE, name |-> Slice(s, nameStart, nameEnd),
              text |-> Slice(s, i, matchEnd), end |-> matchEnd]
        ELSE [ok |-> FALSE, name |-> <<>>, text |-> <<>>, end |-> i]

RECURSIVE ExpandFrom(_, _, _)
ExpandFrom(s, i, e) ==
    IF i > Len(s) THEN <<>>
    ELSE LET m == VarRefAt(s, i)
         IN  IF m.ok
             THEN DictGet(e, m.name, m.text) \o ExpandFrom(s, m.end, e)
             ELSE <<s[i]>> \o ExpandFrom(s, i + 1, e)

\* value with its $VAR and ${VAR} references replaced from the dict e; a
\* value without a $ has no match and is returned as it is
expand_env_vars(value, e) ==
    IF \A i \in DOMAIN value : value[i] # "$" THEN value ELSE ExpandFrom(value, 1, e)

(***************************************************************************)
(* Shell._parse_export_command: three patterns, each applied with          *)
(* re.finditer over the whole command, in the order of the list            *)
(***************************************************************************)
NoMatch == [ok |-> FALSE, key |-> <<>>, value |-> <<>>, end |-> 0]

\* export\s+(\w+)= at position i: where the value starts, and the key
ExportHeadAt(s, i) ==
    LET wsStart == i + Len(EXPORT)
        keyStart == RunEnd(SpaceChars, s, wsStart)
        keyEnd == RunEnd(WordChars, s, keyStart)
    IN  IF /\ StartsAt(s, EXPORT, i)
           /\ wsStart <= Len(s) /\ keyStart > wsStart
           /\ keyEnd > keyStart
           /\ keyEnd <= Len(s) /\ s[keyEnd] = "="
        THEN [ok |-> TRUE, key |-> Slice(s, keyStart, keyEnd), valueStart |-> keyEnd + 1]
        ELSE [ok |-> FALSE, key |-> <<>>, valueStart |-> 0]

\* r'export\s+(\w+)="([^"]*)"' and r"export\s+(\w+)='([^']*)'"
QuotedMatchAt(quote, s, i) ==
    LET h == ExportHeadAt(s, i)
        open == h.valueStart
        close == RunEnd(Alphabet \ {quote}, s, open + 1)
    IN  IF h.ok /\ open <= Len(s) /\ s[open] = quote /\ close <= Len(s)
        THEN [ok |-> TRUE, key |-> h.key, value |-> Slice(s, open + 1, close),
              end |-> close + 1]
        ELSE NoMatch

\* r'export\s+(\w+)=([^\s]+?)(?:\s+|$)'
BareMatchAt(s, i) ==
    LET h == ExportHeadAt(s, i)
        valueEnd == RunEnd(Alphabet \ SpaceChars, s, h.valueStart)
    IN  IF h.ok /\ valueEnd > h.valueStart
        THEN [ok |-> TRUE, key |-> h.key, value |-> Slice(s, h.valueStart, valueEnd),
              end |-> RunEnd(SpaceChars, s, valueEnd)]
        ELSE NoMatch

Patterns == <<"double", "single", "bare">>

PatternMatchAt(pattern, s, i) ==
    CASE pattern = "double" -> QuotedMatchAt("\"", s, i)
      [] pattern = "single" -> QuotedMatchAt("'", s, i)
      [] OTHER -> BareMatchAt(s, i)

\* re.finditer: the non-overlapping matches, leftmost first
RECURSIVE FindIter(_, _, _)
FindIter(pattern, s, i) ==
    LET at == {j \in i..Len(s) : PatternMatchAt(pattern, s, j).ok}
        m == PatternMatchAt(pattern, s, CHOOSE j \in at : \A n \in at : j <= n)
    IN  IF at = {} THEN <<>> ELSE <<m>> \o FindIter(pattern, s, m.end)

\* a loop body that keeps the value a key already has
RECURSIVE ApplyMatches_first_wins(_, _, _)
ApplyMatches_first_wins(matches, env_vars, e) ==
    IF matches = <<>> THEN env_vars
    ELSE LET m == Head(matches)
             value == expand_env_vars(m.value, e)
         IN  ApplyMatches_first_wins(Tail(matches),
                                     DictUpdate([k \in {m.key} |-> value], env_vars), e)

\* the loop body of lines 118-120 over a list of matches, into env_vars
RECURSIVE ApplyMatches(_, _, _)
ApplyMatches(matches, env_vars, e) ==
    IF matches = <<>> THEN env_vars
    ELSE LET m == Head(matches)
             value == expand_env_vars(m.value, e)
         IN  ApplyMatches(Tail(matches), DictUpdate(env_vars, [k \in {m.key} |-> value]), e)

\* lines 114-116: the key and the value of a match, the value with its quotes
\* stripped
Stripped(matches) ==
    [i \in DOMAIN matches |->
        [matches[i] EXCEPT !.value = Strip(Strip(matches[i].value, "\""), "'")]]

\* re.finditer(pattern, command) for each pattern of the list
Matches(command) ==
    [n \in DOMAIN Patterns |-> Stripped(FindIter(Patterns[n], command, 1))]

\* Matches of the commands the callers use, computed once
KnownMatches == [c \in KnownCommands |-> Matches(c)]

MatchesOf(command) ==
    IF command \in KnownCommands THEN KnownMatches[command] ELSE Matches(command)

RECURSIVE ParsePatterns(_, _, _, _)
ParsePatterns(n, matches, env_vars, e) ==
    IF n > Len(Patterns) THEN env_vars
    ELSE ParsePatterns(n + 1, matches, ApplyMatches(matches[n], env_vars, e), e)

\* the dict of variables the command exports, expanded against the dict e
parse_export_command(command, e) == ParsePatterns(1, MatchesOf(command), EmptyDict, e)

(***************************************************************************)
(* Shell._try_sync_with_command: the output of env / printenv, parsed      *)
(***************************************************************************)
\* variables the spawned /bin/sh sets for itself when it does not inherit them
ShellOwnVars == [k \in {<<"P", "W", "D">>} |-> <<"/">>]

\* the environment of the process started with env=self._env
ProcessEnviron(e) == DictUpdate(ShellOwnVars, e)

\* stdout of the command: one KEY=VALUE line per variable
DumpLines(e) == {k \o <<"=">> \o e[k] : k \in DOMAIN e}

\* line.split('=', 1)
SplitKey(line) == Slice(line, 1, RunEnd(Alphabet \ {"="}, line, 1))
SplitValue(line) == Slice(line, RunEnd(Alphabet \ {"="}, line, 1) + 1, Len(line) + 1)

\* lines 193-198: every line holding '=' sets its key
parse_dump(lines) ==
    LET withEq == {l \in lines : RunEnd(Alphabet \ {"="}, l, 1) <= Len(l)}
    IN  [k \in {SplitKey(l) : l \in withEq} |->
            SplitValue(CHOOSE l \in withEq : SplitKey(l) = k)]

\* self._env after a successful _try_sync_with_command
try_sync_with_command(e) == DictUpdate(e, parse_dump(DumpLines(ProcessEnviron(e))))

\* a resync that drops the dict when no dump is available
sync_env_from_shell_or_reset(e, dump) ==
    IF dump \in {"env", "printenv"} THEN try_sync_with_command(e) ELSE EmptyDict

\* _sync_env_from_shell: env first, printenv if env failed, else no sync;
\* dump says which of the two commands is available
sync_env_from_shell(e, dump) ==
    IF dump \in {"env", "printenv"} THEN try_sync_with_command(e) ELSE e

DumpOutcomes == {"env", "printenv", "unavailable"}

\* lines 158-163: the commands _sync_env_from_shell runs, in order
DumpsTried(dump) == IF dump = "env" THEN <<"env">> ELSE <<"env", "printenv">>

(***************************************************************************)
(* Inputs                                                                  *)
(***************************************************************************)
\* os.environ of the process that holds the Shell objects
OsEnviron == [k \in {<<"H">>} |-> <<"h">>]

SetupRcs == {<<>>, <<cmdA1>>, <<cmdA1, cmdB, cmdK>>}
ConfigEnvs == {EmptyDict, [k \in {kA} |-> <<"2">>]}
OverrideEnvs == {[k \in {kA} |-> <<"2">>], [k \in {kK} |-> <<"1">>]}
SetKeys == {kA, kK}
SetValues == {<<"1">>, <<"2">>}
ReturnCodes == {0, 42}

(***************************************************************************)
(* State                                                                   *)
(***************************************************************************)
Shells == DOMAIN closed

NoCall == [op |-> "none", shell |-> NoShell, key |-> <<>>, value |-> <<>>,
           command |-> <<>>, sync_env |-> FALSE, check |-> FALSE,
           given |-> FALSE, override |-> EmptyDict,
           error |-> "", returncode |-> -1, child |-> NoShell, task |-> NoTask,
           produced |-> <<>>, stdout |-> None, dump |-> "", tried |-> <<>>]

\* a caller that is in no call; a call in progress or ended has the same fields:
\* call numbers the calls in progress in the order they were made, outcome is
\* how the read loop of an ended call was left
IdleTask == [pc |-> "idle", op |-> "none", call |-> 0, command |-> <<>>, sync_env |-> FALSE,
             closed_at_call |-> FALSE, script |-> 0, pid |-> NoProcess,
             outcome |-> "none", error |-> "", returncode |-> -1, environ |-> EmptyDict]

\* no read loop is running; a running or finished one has the same fields:
\* the number of its call, the timeout asked for, the time since the command
\* was written and since the readline in progress began, and stdout_lines
IdleReader == [pc |-> "idle", call |-> 0, command |-> <<>>, sync_env |-> FALSE, timeout |-> 0,
               elapsed |-> 0, waited |-> 0, stdout_lines |-> <<>>, outcome |-> "none",
               error |-> "", returncode |-> -1]

FreeLock == [holder |-> NoTask, waiters |-> <<>>]

\* the caller holds no dict of a Shell, and no hook is installed
NoCallerState ==
    /\ snapshots = <<>>
    /\ hook = None
    /\ contexts = <<>>
    /\ records = <<>>

NoSession ==
    /\ persistent_process = NoProcess
    /\ procs = <<>>
    /\ lock = FreeLock
    /\ task = [t \in Tasks |-> IdleTask]
    /\ result = IdleTask
    /\ child = <<>>
    /\ pipe = <<>>
    /\ reader = IdleReader

Init ==
    /\ closed = <<>>
    /\ env = <<>>
    /\ heap = <<>>
    /\ config = <<>>
    /\ parent = <<>>
    /\ last = NoCall
    /\ calls = 0
    /\ NoSession
    /\ NoCallerState

\* Shell.getenv(key): self._env.get(key, None)
getenv(s, key) == DictGet(heap[env[s]], key, None)

\* the content of Shell._env
get_all_env(s) == heap[env[s]]

(***************************************************************************)
(* Shell.__init__ and _run_setup_rc                                        *)
(***************************************************************************)
\* a setup loop in which no command sees the variables of the earlier ones
RECURSIVE SetupAgainst(_, _, _)
SetupAgainst(setup_rc, e, initial) ==
    IF setup_rc = <<>> THEN e
    ELSE SetupAgainst(Tail(setup_rc),
                      DictUpdate(e, parse_export_command(Head(setup_rc), initial)), initial)

run_setup_rc_unordered(setup_rc, e) == SetupAgainst(setup_rc, e, e)

\* _run_setup_rc: each command is parsed against the dict as updated so far
RECURSIVE run_setup_rc(_, _)
run_setup_rc(setup_rc, e) ==
    IF setup_rc = <<>> THEN e
    ELSE run_setup_rc(Tail(setup_rc), DictUpdate(e, parse_export_command(Head(setup_rc), e)))

\* lines 63-70: the content of the new Shell's dict. With a parent the dict
\* is os.environ updated by parent._env, without one by config.environment
InitialEnv(cfg, par) ==
    run_setup_rc(cfg.setup_rc,
                 DictUpdate(OsEnviron, IF par # NoShell THEN heap[env[par]]
                                       ELSE cfg.environment))

\* a new Shell that keeps using its parent's dict object instead of a copy
NewEnvRefShared(s, par) == IF par # NoShell THEN env[par] ELSE s

\* line 63: self._env = os.environ.copy() is a new dict object
NewEnvRef(s, par) == s

\* the new Shell object gets the next identity; e is the content of self._env
\* after __init__
NewShell(s, cfg, par, e) ==
    /\ closed' = Append(closed, FALSE)
    /\ env' = Append(env, NewEnvRef(s, par))
    /\ heap' = Append(heap, e)
    /\ config' = Append(config, [setup_rc |-> cfg.setup_rc])
    /\ parent' = Append(parent, par)

\* create_shell(environment=..., setup_rc=...)
create_shell(environment, setup_rc) ==
    LET s == Len(closed) + 1
    IN  /\ s = 1
        /\ NewShell(s, [environment |-> environment, setup_rc |-> setup_rc], NoShell,
                    InitialEnv([environment |-> environment, setup_rc |-> setup_rc],
                               NoShell))
        /\ last' = [NoCall EXCEPT !.op = "create_shell", !.shell = s]

(***************************************************************************)
(* Shell.setenv, Shell.close                                               *)
(***************************************************************************)
Raise(call, error) == [call EXCEPT !.error = error]

\* a setenv that keeps the value of a key that is already set
setenv_setdefault(s, key, value) ==
    LET call == [NoCall EXCEPT !.op = "setenv", !.shell = s, !.key = key, !.value = value]
    IN  IF closed[s]
        THEN /\ last' = Raise(call, "RuntimeError")
             /\ UNCHANGED <<closed, env, heap, config, parent>>
        ELSE /\ heap' = [heap EXCEPT ![env[s]] = DictUpdate([k \in {key} |-> value], @)]
             /\ last' = call
             /\ UNCHANGED <<closed, env, config, parent>>

\* a setenv without the check of lines 363-364
setenv_unchecked(s, key, value) ==
    /\ heap' = [heap EXCEPT ![env[s]] = DictUpdate(@, [k \in {key} |-> value])]
    /\ last' = [NoCall EXCEPT !.op = "setenv", !.shell = s, !.key = key, !.value = value]
    /\ UNCHANGED <<closed, env, config, parent>>

setenv(s, key, value) ==
    LET call == [NoCall EXCEPT !.op = "setenv", !.shell = s, !.key = key, !.value = value]
    IN  IF closed[s]
        THEN /\ last' = Raise(call, "RuntimeError")
             /\ UNCHANGED <<closed, env, heap, config, parent>>
        ELSE /\ heap' = [heap EXCEPT ![env[s]] = DictUpdate(@, [k \in {key} |-> value])]
             /\ last' = call
             /\ UNCHANGED <<closed, env, config, parent>>

\* a close that fails on a Shell that is closed already
close_once(s) ==
    /\ closed' = [closed EXCEPT ![s] = TRUE]
    /\ last' = [NoCall EXCEPT !.op = "close", !.shell = s,
                              !.error = IF closed[s] THEN "RuntimeError" ELSE ""]
    /\ UNCHANGED <<env, heap, config, parent>>

close(s) ==
    /\ closed' = [closed EXCEPT ![s] = TRUE]
    /\ last' = [NoCall EXCEPT !.op = "close", !.shell = s]
    /\ UNCHANGED <<env, heap, config, parent>>

(***************************************************************************)
(* Shell.fork                                                              *)
(***************************************************************************)
NoConfig == [given |-> FALSE, environment |-> EmptyDict, setup_rc |-> <<>>]
OverrideConfigs == {[given |-> TRUE, environment |-> e, setup_rc |-> <<>>] : e \in OverrideEnvs}

\* lines 334-351: the config the child is constructed with
ForkConfig(s, cfg) ==
    IF cfg.given
    THEN [environment |-> DictUpdate(heap[env[s]], cfg.environment), setup_rc |-> cfg.setup_rc]
    ELSE [environment |-> heap[env[s]], setup_rc |-> config[s].setup_rc]

\* a fork without the check of lines 331-332
fork_unchecked(s, cfg) ==
    LET c == Len(closed) + 1
    IN  /\ c <= MaxShells
        /\ NewShell(c, ForkConfig(s, cfg), s, InitialEnv(ForkConfig(s, cfg), s))
        /\ last' = [NoCall EXCEPT !.op = "fork", !.shell = s, !.given = cfg.given,
                                  !.override = cfg.environment, !.child = c]

fork(s, cfg) ==
    LET call == [NoCall EXCEPT !.op = "fork", !.shell = s, !.given = cfg.given,
                               !.override = cfg.environment]
        c == Len(closed) + 1
    IN  IF closed[s]
        THEN /\ last' = Raise(call, "RuntimeError")
             /\ UNCHANGED <<closed, env, heap, config, parent>>
        ELSE /\ c <= MaxShells
             /\ NewShell(c, ForkConfig(s, cfg), s, InitialEnv(ForkConfig(s, cfg), s))
             /\ last' = [call EXCEPT !.child = c]

(***************************************************************************)
(* Shell.execute                                                           *)
(***************************************************************************)
\* line 299: whether _sync_env_from_shell is called
DumpIsRun(sync_env, returncode) == sync_env /\ returncode = 0

\* the predictive update made only for a command that succeeded
EnvAfterExecute_on_success(e, command, sync_env, returncode, dump) ==
    IF DumpIsRun(sync_env, returncode)
    THEN sync_env_from_shell(DictUpdate(e, parse_export_command(command, e)), dump)
    ELSE e

\* lines 293-300: the dict after a command that ran to completion
EnvAfterExecute(e, command, sync_env, returncode, dump) ==
    LET predicted == IF sync_env THEN DictUpdate(e, parse_export_command(command, e)) ELSE e
    IN  IF DumpIsRun(sync_env, returncode) THEN sync_env_from_shell(predicted, dump)
        ELSE predicted

\* Shell.execute on a closed Shell (lines 250-251)
execute_closed(s, command, check, sync_env) ==
    /\ closed[s]
    /\ last' = Raise([NoCall EXCEPT !.op = "execute", !.shell = s, !.command = command,
                                    !.sync_env = sync_env, !.check = check], "RuntimeError")
    /\ UNCHANGED <<closed, env, heap, config, parent>>

\* the subprocess cannot be started (RuntimeError, lines 315-319) or is still
\* running when the timeout elapses (TimeoutError, lines 272-279): it is killed
\* and the TimeoutError of wait_for is raised again as it is; produced is what
\* the command had written to its stdout by then
execute_fails(s, command, check, sync_env, error, produced) ==
    /\ ~closed[s]
    /\ produced \in Prefixes(StdoutOf(command))
    /\ error = "RuntimeError" => produced = <<>>
    /\ last' = Raise([NoCall EXCEPT !.op = "execute", !.shell = s, !.command = command,
                                    !.sync_env = sync_env, !.check = check,
                                    !.produced = produced], error)
    /\ UNCHANGED <<closed, env, heap, config, parent>>

\* the subprocess exits with returncode; dump is what the environment dump
\* that follows a successful synchronized command finds available.  The
\* caller is handed stdout in the result (lines 283-289) or, when check fails,
\* as the output of the CalledProcessError that the RuntimeError is raised
\* from (lines 302-308, 315-319)
execute(s, command, check, sync_env, returncode, dump) ==
    /\ ~closed[s]
    /\ heap' = [heap EXCEPT ![env[s]] =
                   EnvAfterExecute(@, command, sync_env, returncode, dump)]
    /\ last' = [NoCall EXCEPT !.op = "execute", !.shell = s, !.command = command,
                              !.sync_env = sync_env, !.check = check,
                              !.returncode = returncode,
                              !.produced = StdoutOf(command),
                              !.stdout = StdoutOf(command),
                              !.dump = dump,
                              !.tried = IF DumpIsRun(sync_env, returncode)
                                        THEN DumpsTried(dump) ELSE <<>>,
                              !.error = IF check /\ returncode # 0
                                        THEN "RuntimeError" ELSE ""]
    /\ UNCHANGED <<closed, env, config, parent>>

ExecuteErrors == {"RuntimeError", "TimeoutError"}
Outputs == {<<>>, <<"h">>}

(***************************************************************************)
(* The one-shot Shell: every call a caller can make                        *)
(***************************************************************************)
Call(step) == /\ calls < MaxCalls
              /\ calls' = calls + 1
              /\ step
              /\ UNCHANGED <<snapshots, hookVars, sessionVars, readVars>>

Next ==
    \/ \E e \in ConfigEnvs, rc \in SetupRcs : Call(create_shell(e, rc))
    \/ \E s \in Shells, k \in SetKeys, v \in SetValues : Call(setenv(s, k, v))
    \/ \E s \in Shells : Call(close(s))
    \/ \E s \in Shells, cfg \in {NoConfig} \cup OverrideConfigs : Call(fork(s, cfg))
    \/ \E s \in Shells, c \in Commands, chk \in BOOLEAN, sy \in BOOLEAN :
          \/ Call(execute_closed(s, c, chk, sy))
          \/ \E err \in ExecuteErrors, out \in Outputs :
                Call(execute_fails(s, c, chk, sy, err, out))
          \/ \E r \in ReturnCodes, d \in DumpOutcomes :
                /\ DumpIsRun(sy, r) \/ d = "unavailable"
                /\ Call(execute(s, c, chk, sy, r, d))

Spec == Init /\ [][Next]_vars

(***************************************************************************)
(* Properties of the one-shot Shell                                        *)
(***************************************************************************)
\* the step is the call op on Shell s
StepIs(op, s) == calls' = calls + 1 /\ last'.op = op /\ last'.shell = s

\* the last call was an execute with synchronization whose command ran to completion
SyncedExecute == last.op = "execute" /\ last.sync_env /\ last.returncode >= 0

\* C1: after setenv(k, v) on an open Shell, getenv(k) returns v, with no
\* command run in between
C1_SetenvThenGetenv ==
    (last.op = "setenv" /\ last.error = "") => getenv(last.shell, last.key) = last.value

\* setenv has replaced the value a setup command had given the key
C1_Witness ==
    /\ last.op = "setenv" /\ last.error = ""
    /\ last.key = kA /\ last.value = <<"2">>
    /\ config[last.shell].setup_rc # <<>>
    /\ getenv(last.shell, kA) = <<"2">>

\* the value export K='V' is to leave in getenv(K): V with the references to
\* variables of the dict e replaced
ExportedKey(command) ==
    CASE command \in {cmdA1, cmdA2} -> kA
      [] command = cmdB -> kB
      [] OTHER -> kK

ExportedValue(command, e) ==
    CASE command = cmdA1 -> <<"1">>
      [] command = cmdA2 -> <<"2">>
      [] command = cmdB -> DictGet(e, kA, <<"$", "A">>) \o <<"-", "2">>
      [] OTHER -> <<"a", " ", "b">>

\* C2: after export K='V' is executed with synchronization, getenv(K) is V
\* with its $NAME references to known variables replaced
C2_ExportTracked ==
    (SyncedExecute /\ last.command \in {cmdA1, cmdA2, cmdB, cmdSpace})
        => getenv(last.shell, ExportedKey(last.command))
             = ExportedValue(last.command, get_all_env(last.shell))

\* C3: export statements are applied in order and each sees the variables
\* of the earlier ones: export B='$A-2' run after A was set gives B the
\* value of A followed by -2, and the setup commands A='1', B='$A-2',
\* K='$A-$B' leave K = '1-1-2'
C3_ExportsInOrder ==
    /\ (SyncedExecute /\ last.command = cmdB /\ getenv(last.shell, kA) # None)
          => getenv(last.shell, kB) = getenv(last.shell, kA) \o <<"-", "2">>
    /\ (last.op = "create_shell" /\ config[last.shell].setup_rc = <<cmdA1, cmdB, cmdK>>)
          => /\ getenv(last.shell, kA) = <<"1">>
             /\ getenv(last.shell, kB) = <<"1", "-", "2">>
             /\ getenv(last.shell, kK) = <<"1", "-", "1", "-", "2">>

\* a session without setup commands on which export B='$A-2' was executed
\* after A had become '1'
C3_Witness ==
    /\ SyncedExecute /\ last.command = cmdB
    /\ config[last.shell].setup_rc = <<>>
    /\ getenv(last.shell, kA) = <<"1">>
    /\ getenv(last.shell, kB) = <<"1", "-", "2">>

\* C4: right after fork() the child has the parent's value for every key of
\* the parent
C4_ForkInherits ==
    (last.op = "fork" /\ last.error = "" /\ ~last.given)
        => \A k \in DOMAIN get_all_env(last.shell) :
              getenv(last.child, k) = getenv(last.shell, k)

\* C5: after fork, a call on the child leaves every variable of the parent
\* as it was, and a call on the parent leaves every variable of the child
C5_ForkIsolation ==
    [][\A c \in Shells : parent[c] # NoShell =>
          /\ last'.shell = c => get_all_env(parent[c])' = get_all_env(parent[c])
          /\ last'.shell = parent[c] => get_all_env(c)' = get_all_env(c)]_vars

\* the child has set a key the parent does not have
C5_Witness ==
    /\ last.op = "setenv" /\ last.error = ""
    /\ parent[last.shell] # NoShell
    /\ getenv(last.shell, last.key) = last.value
    /\ getenv(parent[last.shell], last.key) = None

\* C6: the child of fork(overrideConfig) has the override's value for every
\* key of overrideConfig.environment
C6_OverrideWins ==
    (last.op = "fork" /\ last.error = "" /\ last.given)
        => \A k \in DOMAIN last.override : getenv(last.child, k) = last.override[k]

\* C8: setenv on a closed Shell raises, and the variables of a closed Shell
\* stay what they were
C8_SetenvClosed ==
    [][\A s \in Shells : closed[s] =>
          /\ get_all_env(s)' = get_all_env(s)
          /\ StepIs("setenv", s) => last'.error = "RuntimeError"]_vars

\* setenv was refused on a closed Shell, which keeps another value for the key
C8_Witness ==
    /\ last.op = "setenv" /\ last.error = "RuntimeError"
    /\ closed[last.shell]
    /\ getenv(last.shell, last.key) # last.value

\* C9: fork on a closed Shell raises and creates no Shell, with and without
\* a config
C9_ForkClosed ==
    [][\A s \in Shells : (closed[s] /\ StepIs("fork", s)) =>
          /\ last'.error = "RuntimeError"
          /\ last'.child = NoShell
          /\ DOMAIN closed' = DOMAIN closed]_vars

\* fork with a config was refused on a closed Shell
C9_Witness ==
    /\ last.op = "fork" /\ last.error = "RuntimeError" /\ last.given
    /\ closed[last.shell]
    /\ Len(closed) = 1

\* C14: an execute call that ends by timeout or error hands the caller the
\* stdout the command had produced by then
C14_OutputKept ==
    (last.op = "execute" /\ last.error # "" /\ last.produced # <<>>)
        => last.stdout = last.produced

\* C21: a command that completes with a non-zero status raises only under
\* check=True, and what is raised then is CalledProcessError
C21_NonZeroExitKind ==
    (last.op = "execute" /\ last.returncode > 0)
        => last.error = IF last.check THEN "CalledProcessError" ELSE ""

\* C30: with synchronization, the variables the command text exports are
\* merged into the dict also when the command exits with a non-zero status,
\* with and without check: every predicted key has its predicted value, and
\* export K='V' leaves getenv(K) = V
C30_PredictiveAnyStatus ==
    [][\A s \in Shells :
          (StepIs("execute", s) /\ last'.sync_env /\ last'.returncode > 0) =>
              LET predicted == parse_export_command(last'.command, get_all_env(s))
              IN  /\ \A k \in DOMAIN predicted : getenv(s, k)' = predicted[k]
                  /\ last'.command \in {cmdA1, cmdA2, cmdB} =>
                         DictGet(get_all_env(s)', ExportedKey(last'.command), None)
                           = ExportedValue(last'.command, get_all_env(s))]_vars

\* export A='2' exited with status 42 under check=True on a Shell whose
\* setup had exported A='1': the call raised and A is '2'
C30_Witness ==
    /\ last.op = "execute" /\ last.sync_env /\ last.check
    /\ last.returncode = 42 /\ last.error = "RuntimeError"
    /\ last.command = cmdA2
    /\ config[last.shell].setup_rc = <<cmdA1>>
    /\ getenv(last.shell, kA) = <<"2">>

\* C31: the dump that follows a synchronized command that exited with 0 is
\* tried with env first and with printenv only when env failed; when neither
\* gives a dump, the dict is what the predictive update made of it and the
\* call returns its result, with exit status 0, without raising.
C31_ResyncDegrades ==
    [][\A s \in Shells :
        (StepIs("execute", s) /\ last'.sync_env /\ last'.returncode = 0) =>
            /\ last'.tried = IF last'.dump = "env" THEN <<"env">>
                             ELSE <<"env", "printenv">>
            /\ last'.dump = "unavailable" =>
                  /\ get_all_env(s)' = DictUpdate(get_all_env(s),
                                          parse_export_command(last'.command, get_all_env(s)))
                  /\ last'.error = ""
                  /\ last'.stdout = StdoutOf(last'.command)]_vars

\* export A='2' was executed with synchronization and check on a Shell that
\* had A = 1, neither env nor printenv gave a dump, and A is 2
C31_Witness ==
    /\ last.op = "execute" /\ last.sync_env /\ last.check /\ last.returncode = 0
    /\ last.command = cmdA2
    /\ last.dump = "unavailable" /\ last.tried = <<"env", "printenv">>
    /\ last.error = ""
    /\ config[last.shell].setup_rc = <<cmdA1>>
    /\ get_all_env(last.shell) = DictUpdate(OsEnviron, [k \in {kA} |-> <<"2">>])

(***************************************************************************)
(* async with shell: __aenter__ when the block is entered, __aexit__ when  *)
(* it is left; the body makes any calls in between                         *)
(***************************************************************************)
\* Shell.is_alive
is_alive(s) == ~closed[s]

\* Shell.__aenter__ returns the Shell
aenter(s) ==
    /\ last' = [NoCall EXCEPT !.op = "aenter", !.shell = s, !.child = s]
    /\ UNCHANGED <<closed, env, heap, config, parent>>

\* a __aexit__ that closes only when the body raised nothing
aexit_on_success(s, exc) ==
    /\ closed' = [closed EXCEPT ![s] = @ \/ exc = ""]
    /\ last' = Raise([NoCall EXCEPT !.op = "aexit", !.shell = s], exc)
    /\ UNCHANGED <<env, heap, config, parent>>

\* Shell.__aexit__: exc is what the body raised, "" when it raised nothing;
\* close() is called, None is returned and so exc goes on to the caller
aexit(s, exc) ==
    /\ closed' = [closed EXCEPT ![s] = TRUE]
    /\ last' = Raise([NoCall EXCEPT !.op = "aexit", !.shell = s], exc)
    /\ UNCHANGED <<env, heap, config, parent>>

BodyErrors == {""} \cup ExecuteErrors

NextScope ==
    \/ \E e \in ConfigEnvs, rc \in SetupRcs : Call(create_shell(e, rc))
    \/ \E s \in Shells : Call(aenter(s))
    \/ \E s \in Shells, exc \in BodyErrors : Call(aexit(s, exc))
    \/ \E s \in Shells, c \in {cmdA2, cmdEcho}, chk \in BOOLEAN, sy \in BOOLEAN :
          \/ Call(execute_closed(s, c, chk, sy))
          \/ Call(execute_fails(s, c, chk, sy, "TimeoutError", <<>>))
          \/ \E r \in ReturnCodes : Call(execute(s, c, chk, sy, r, "unavailable"))

SpecScope == Init /\ [][NextScope]_vars

\* C22: leaving an async with block closes the Shell, whether the body
\* raised or not: is_alive() is False from then on and execute raises
C22_ScopedClose ==
    [][\A s \in Shells :
          /\ StepIs("aexit", s) => ~is_alive(s)'
          /\ ~is_alive(s) => ~is_alive(s)'
          /\ (~is_alive(s) /\ StepIs("execute", s)) => last'.error = "RuntimeError"]_vars

\* a block whose body raised a TimeoutError was left: the Shell is closed and
\* the TimeoutError goes on
C22_Witness ==
    /\ last.op = "aexit" /\ last.error = "TimeoutError"
    /\ ~is_alive(last.shell)

(***************************************************************************)
(* The dicts get_all_env returns: the caller keeps them and may assign to  *)
(* their keys                                                              *)
(***************************************************************************)
Owner == 1

InitSnapshot ==
    /\ closed = <<FALSE>>
    /\ env = <<Owner>>
    /\ \E e \in ConfigEnvs :
          heap = <<InitialEnv([environment |-> e, setup_rc |-> <<>>], NoShell)>>
    /\ config = <<[setup_rc |-> <<>>]>>
    /\ parent = <<NoShell>>
    /\ last = NoCall
    /\ calls = 0
    /\ NoSession
    /\ NoCallerState

\* a get_all_env that returns self._env itself
ReturnedDict_shared(s) == env[s]

\* the object get_all_env returns: self._env.copy() is a new dict
ReturnedDict(s) == Len(heap) + 1

\* Shell.get_all_env, called by the caller, who keeps what it returns
get_all_env_returns(s) ==
    LET ref == ReturnedDict(s)
    IN  /\ Len(snapshots) < MaxSnapshots
        /\ heap' = IF ref > Len(heap) THEN Append(heap, heap[env[s]]) ELSE heap
        /\ snapshots' = Append(snapshots, ref)
        /\ last' = [NoCall EXCEPT !.op = "get_all_env", !.shell = s]
        /\ UNCHANGED <<closed, env, config, parent>>

\* the caller assigns to a key of the i-th dict it was given
snapshot_assign(i, key, value) ==
    /\ heap' = [heap EXCEPT ![snapshots[i]] = DictUpdate(@, [k \in {key} |-> value])]
    /\ last' = [NoCall EXCEPT !.op = "snapshot_assign", !.key = key, !.value = value,
                              !.child = i]
    /\ UNCHANGED <<closed, env, config, parent, snapshots>>

\* a call on the Shell or on a dict; the session and the hook take no part
CallerStep(step) ==
    /\ calls < MaxCalls
    /\ calls' = calls + 1
    /\ step
    /\ UNCHANGED <<sessionVars, readVars, hookVars>>

NextSnapshot ==
    \/ CallerStep(get_all_env_returns(Owner))
    \/ \E i \in DOMAIN snapshots, k \in SetKeys, v \in SetValues :
          CallerStep(snapshot_assign(i, k, v))
    \/ \E k \in SetKeys, v \in SetValues :
          CallerStep(setenv(Owner, k, v) /\ UNCHANGED snapshots)
    \/ CallerStep(close(Owner) /\ UNCHANGED snapshots)

SpecSnapshot == InitSnapshot /\ [][NextSnapshot]_vars

\* C23: get_all_env returns a copy: the dict returned equals the variables
\* of the Shell at the call, an assignment to a returned dict changes no
\* variable of the Shell, and a later setenv changes no returned dict
C23_SnapshotCopy ==
    [][/\ StepIs("get_all_env", Owner) =>
              heap'[snapshots'[Len(snapshots')]] = get_all_env(Owner)
       /\ last'.op = "snapshot_assign" => get_all_env(Owner)' = get_all_env(Owner)
       /\ StepIs("setenv", Owner) =>
              \A i \in DOMAIN snapshots : heap'[snapshots[i]] = heap[snapshots[i]]]_vars

\* the caller has assigned A in the dict it was given, and the Shell has
\* another value for A
C23_Witness ==
    /\ last.op = "snapshot_assign" /\ last.key = kA
    /\ DictGet(heap[snapshots[last.child]], kA, None) = last.value
    /\ getenv(Owner, kA) \notin {last.value, None}
    /\ Len(snapshots) = 1

(***************************************************************************)
(* SessionShell: one session object, the Shell object Sess being its base  *)
(* shell, and MaxTasks callers.  A step runs a caller from one suspension  *)
(* (an await that waits) to the next.                                      *)
(***************************************************************************)
Sess == 1

SessionPreScripts == {<<>>, <<cmdA1>>}
SessionCommands == {cmdA2, cmdExit}
\* sync_env makes no difference to a command that exports nothing
SessionInputs == {in \in [command : SessionCommands, sync_env : BOOLEAN] :
                     in.command = cmdExit => in.sync_env}
ReadOutcomes == {"prompt", "eof", "timeout"}

EXIT == <<"e", "x", "i", "t">>

\* SessionShell.__init__: the base shell is constructed from the config
InitSession ==
    /\ closed = <<FALSE>>
    /\ env = <<Sess>>
    /\ \E ps \in SessionPreScripts :
          /\ heap = <<InitialEnv([environment |-> EmptyDict, setup_rc |-> ps], NoShell)>>
          /\ config = <<[setup_rc |-> ps]>>
    /\ parent = <<NoShell>>
    /\ last = NoCall
    /\ calls = 0
    /\ NoSession
    /\ NoCallerState

pre_scripts == config[Sess].setup_rc

\* line 89: value.replace('"', '\\"').replace('$', '\\$')
RECURSIVE Escaped(_)
Escaped(value) ==
    IF value = <<>> THEN <<>>
    ELSE (IF Head(value) \in {"\"", "$"} THEN <<"\\", Head(value)>> ELSE <<Head(value)>>)
         \o Escaped(Tail(value))

\* lines 87-90: export KEY="VALUE" for the items of the dict
RECURSIVE ExportParts(_, _)
ExportParts(e, keys) ==
    IF keys = {} THEN <<>>
    ELSE LET k == CHOOSE k \in keys : TRUE
         IN  <<EXPORT \o <<" ">> \o k \o <<"=", "\"">> \o Escaped(e[k]) \o <<"\"">>>>
             \o ExportParts(e, keys \ {k})

\* config.shell_type
SHELL_TYPE == <<"b", "a", "s", "h">>

\* "; ".join(parts)
RECURSIVE Joined(_)
Joined(parts) ==
    IF Len(parts) = 1 THEN parts[1]
    ELSE parts[1] \o <<";", " ">> \o Joined(Tail(parts))

\* SessionShell._build_startup_script: the exports, the pre_scripts, the shell
build_startup_script(e, scripts) ==
    Joined(ExportParts(e, DOMAIN e) \o scripts \o <<SHELL_TYPE>>)

\* the child create_subprocess_shell(startup_script, ..., env=self._shell._env)
\* starts (lines 61-72): environ is the dict its startup script was built from
NewProcess(environ) == [alive |-> TRUE, stdin |-> <<>>, environ |-> environ]

\* the call of the task has ended: with an exception, or with a result
Over(rec) == [IdleTask EXCEPT !.op = rec.op, !.command = rec.command,
                             !.closed_at_call = rec.closed_at_call,
                             !.outcome = rec.outcome]
Raised(rec, error) == [Over(rec) EXCEPT !.error = error]
Returned(rec, returncode) == [Over(rec) EXCEPT !.returncode = returncode]

\* the call of task t ends with the result res
Ends(t, res) == task' = [task EXCEPT ![t] = IdleTask] /\ result' = res

\* no call ends in the step, no call is made in the step: last and result
\* tell what the step that led to the state was, if it was a call or its end
NoEnd == result' = IdleTask
NoCallMade == last' = NoCall /\ UNCHANGED calls

\* the callers are alike: a call is made by the first caller that is in none
CanCall(t) == task[t].pc = "idle" /\ \A u \in Tasks : u < t => task[u].pc # "idle"

\* the lock after its holder has left the async with block: it passes to the
\* task that has waited longest
Released(l) ==
    IF l.waiters = <<>> THEN FreeLock
    ELSE [holder |-> Head(l.waiters), waiters |-> Tail(l.waiters)]

\* the text _execute_on_persistent_process is called with: a pre_script, or
\* the command as _apply_hooks returns it when the config has no hooks
TextOf(rec) == IF rec.script > 0 THEN pre_scripts[rec.script] ELSE rec.command

\* a write whose failure leaves the lock with the call that failed
WriteCommand_leaky(t, rec, pp, ps, l) ==
    IF pp = NoProcess \/ ~ps[pp].alive
    THEN /\ Ends(t, Raised(rec, "RuntimeError"))
         /\ lock' = l
         /\ procs' = ps
    ELSE /\ task' = [task EXCEPT ![t] = [rec EXCEPT !.pc = "reading", !.pid = pp]]
         /\ NoEnd
         /\ lock' = l
         /\ procs' = [ps EXCEPT ![pp].stdin = Append(@, TextOf(rec))]

\* lines 164-171, run by task t holding the lock l: the command is written to
\* the stdin of the process pp, one of ps
WriteCommand(t, rec, pp, ps, l) ==
    IF pp = NoProcess \/ ~ps[pp].alive
    THEN /\ Ends(t, Raised(rec, "RuntimeError"))
         /\ lock' = Released(l)
         /\ procs' = ps
    ELSE /\ task' = [task EXCEPT ![t] = [rec EXCEPT !.pc = "reading", !.pid = pp]]
         /\ NoEnd
         /\ lock' = l
         /\ procs' = [ps EXCEPT ![pp].stdin = Append(@, TextOf(rec))]

\* an entry that does not wait for the lock when another call holds it
EnterExecuteOn_unlocked(t, rec, pp, ps, l) ==
    WriteCommand(t, rec, pp, ps, IF l.holder = NoTask THEN [l EXCEPT !.holder = t] ELSE l)

\* line 163: _execute_on_persistent_process is entered by task t
EnterExecuteOn(t, rec, pp, ps, l) ==
    IF l.holder = NoTask
    THEN WriteCommand(t, rec, pp, ps, [l EXCEPT !.holder = t])
    ELSE /\ task' = [task EXCEPT ![t] = [rec EXCEPT !.pc = "lock_wait"]]
         /\ NoEnd
         /\ lock' = [l EXCEPT !.waiters = Append(@, t)]
         /\ procs' = ps

\* SessionShell.execute is called (lines 120-136, to the first suspension)
session_execute(t, command, sync_env) ==
    LET rec == [IdleTask EXCEPT !.op = "execute", !.call = calls + 1, !.command = command,
                                !.sync_env = sync_env, !.closed_at_call = closed[Sess]]
    IN  /\ CanCall(t)
        /\ calls < MaxSessionCalls
        /\ calls' = calls + 1
        /\ last' = [NoCall EXCEPT !.op = "session_execute", !.shell = Sess, !.task = t]
        /\ IF persistent_process = NoProcess
           THEN \* line 61: the startup script is built before the child is awaited
                /\ task' = [task EXCEPT ![t] = [rec EXCEPT !.pc = "spawning",
                                                           !.environ = get_all_env(Sess)]]
                /\ NoEnd
                /\ UNCHANGED <<lock, procs>>
           ELSE EnterExecuteOn(t, rec, persistent_process, procs, lock)
        /\ UNCHANGED <<snapshots, hookVars, shellVars, persistent_process, readVars>>

\* _start_persistent_process resumes after create_subprocess_shell (lines
\* 65-75), and the pre_scripts loop or the command follows (lines 124-136)
session_spawned(t, ok) ==
    LET rec == task[t]
        pid == Len(procs) + 1
        first == IF pre_scripts # <<>> THEN 1 ELSE 0
    IN  /\ rec.pc = "spawning"
        /\ IF ok
           THEN /\ persistent_process' = pid
                /\ EnterExecuteOn(t, [rec EXCEPT !.script = first, !.environ = EmptyDict], pid,
                                  Append(procs, NewProcess(rec.environ)), lock)
           ELSE /\ Ends(t, Raised(rec, "RuntimeError"))
                /\ UNCHANGED <<persistent_process, procs, lock>>
        /\ NoCallMade
        /\ UNCHANGED <<snapshots, hookVars, shellVars, readVars>>

\* a task that waited for the lock has it and goes on at line 164
session_lock_acquired(t) ==
    /\ task[t].pc = "lock_wait"
    /\ lock.holder = t
    /\ WriteCommand(t, task[t], persistent_process, procs, lock)
    /\ NoCallMade
    /\ UNCHANGED <<snapshots, hookVars, shellVars, persistent_process, readVars>>

\* lines 139-141: the exports of the original command are tracked
EnvAfterSessionExecute(e, command, sync_env) ==
    IF sync_env THEN DictUpdate(e, parse_export_command(command, e)) ELSE e

\* the child processes after a read loop on the stdout of process pid was left
\* with outcome: a child whose stdout is at its end has exited, and the break of
\* lines 194-197 leaves the child as it is
AfterRead_kill(ps, pid, outcome) == [ps EXCEPT ![pid].alive = FALSE]

AfterRead(ps, pid, outcome) ==
    IF outcome = "eof" THEN [ps EXCEPT ![pid].alive = FALSE] ELSE ps

\* what a command makes the shell that runs it exit with
ExitStatusOf(command) == IF command = cmdExit THEN 42 ELSE 0

\* the read loops of lines 181-210 end (the stdout of a child that has exited
\* is at its end): a prompt was seen, the child closed
\* its stdout, or a readline timed out; a result with returncode 0 is built
\* and the lock released
session_read_done(t, outcome) ==
    LET rec == task[t]
        over == [rec EXCEPT !.outcome = outcome]
        ps == AfterRead(procs, rec.pid, outcome)
    IN  /\ rec.pc = "reading"
        /\ outcome # "eof" => procs[rec.pid].alive
        /\ IF persistent_process = NoProcess
           THEN \* self._persistent_process.stderr of line 203 fails
                /\ Ends(t, Raised(over, "RuntimeError"))
                /\ lock' = Released(lock)
                /\ procs' = ps
                /\ UNCHANGED heap
           ELSE IF rec.script > 0
           THEN /\ EnterExecuteOn(t, [rec EXCEPT !.script = IF rec.script < Len(pre_scripts)
                                                             THEN rec.script + 1 ELSE 0],
                                  persistent_process, ps, Released(lock))
                /\ UNCHANGED heap
           ELSE /\ Ends(t, Returned(over, 0))
                /\ lock' = Released(lock)
                /\ procs' = ps
                /\ heap' = [heap EXCEPT ![env[Sess]] =
                               EnvAfterSessionExecute(@, rec.command, rec.sync_env)]
        /\ NoCallMade
        /\ UNCHANGED <<snapshots, hookVars, closed, env, config, parent, persistent_process,
                       readVars>>

\* SessionShell.async_close is called (lines 236-253, to the wait)
session_async_close(t) ==
    LET rec == [IdleTask EXCEPT !.op = "async_close", !.closed_at_call = closed[Sess]]
        pp == persistent_process
    IN  /\ CanCall(t)
        /\ calls < MaxSessionCalls
        /\ calls' = calls + 1
        /\ last' = [NoCall EXCEPT !.op = "async_close", !.shell = Sess, !.task = t]
        /\ closed' = [closed EXCEPT ![Sess] = TRUE]
        /\ IF pp = NoProcess
           THEN /\ Ends(t, Over(rec))
                /\ UNCHANGED procs
           ELSE /\ task' = [task EXCEPT ![t] = [rec EXCEPT !.pc = "closing", !.pid = pp]]
                /\ NoEnd
                /\ procs' = IF procs[pp].alive
                            THEN [procs EXCEPT ![pp].stdin = Append(@, EXIT)]
                            ELSE procs
        /\ UNCHANGED <<snapshots, hookVars, env, heap, config, parent, persistent_process, lock,
                       readVars>>

\* an async_close that keeps its handle
HandleAfterClose_kept(pp) == pp

\* line 262
HandleAfterClose(pp) == NoProcess

\* the wait of lines 250-253 ends: the terminated child has exited, or the
\* wait timed out and the child the session holds now is killed (lines
\* 254-260); then the handle is dropped (line 262)
session_async_close_done(t, graceful) ==
    LET rec == task[t]
        victim == IF graceful THEN rec.pid ELSE persistent_process
    IN  /\ rec.pc = "closing"
        /\ procs' = IF victim # NoProcess THEN [procs EXCEPT ![victim].alive = FALSE]
                    ELSE procs
        /\ persistent_process' = HandleAfterClose(persistent_process)
        /\ Ends(t, Over(rec))
        /\ NoCallMade
        /\ UNCHANGED <<snapshots, hookVars, shellVars, lock, readVars>>

\* close() on the session: __getattr__ hands it to the base shell
session_close ==
    /\ calls < MaxSessionCalls
    /\ calls' = calls + 1
    /\ close(Sess)
    /\ NoEnd
    /\ UNCHANGED <<snapshots, hookVars, persistent_process, procs, lock, task, readVars>>

NextSession ==
    \/ \E t \in Tasks, in \in SessionInputs : session_execute(t, in.command, in.sync_env)
    \/ \E t \in Tasks, ok \in BOOLEAN : session_spawned(t, ok)
    \/ \E t \in Tasks : session_lock_acquired(t)
    \/ \E t \in Tasks, o \in ReadOutcomes : session_read_done(t, o)
    \/ \E t \in Tasks : session_async_close(t)
    \/ \E t \in Tasks, g \in BOOLEAN : session_async_close_done(t, g)
    \/ session_close

SpecSession == InitSession /\ [][NextSession]_vars

(***************************************************************************)
(* Claims about closed sessions, under SpecSession                         *)
(***************************************************************************)

\* C7: an execute called on a closed session is reported as an invalid-state
\* failure and starts no child process and writes to none: the one-shot call
\* has raised RuntimeError, and the session call is over, with RuntimeError,
\* in the step that made it
C7_ClosedExecuteFails ==
    /\ (last.op = "execute" /\ closed[last.shell]) => last.error = "RuntimeError"
    /\ \A t \in Tasks : ~(task[t].op = "execute" /\ task[t].closed_at_call)
    /\ (result.op = "execute" /\ result.closed_at_call) => result.error = "RuntimeError"

\* task t makes its call of op in this step
TaskCalls(t, op) ==
    /\ calls' = calls + 1
    /\ last'.task = t
    /\ last'.op = op

\* C10: close is idempotent.  Shell.close on a closed shell raises nothing
\* and leaves the closed flags, the child-process handle and the environments
\* as they are; async_close on a session that is closed and holds no child
\* returns at once, raises nothing and leaves the same state as it is; and
\* every async_close, however often called, ends without an exception in the
\* state the first one ended in: closed, with no child-process handle
C10_CloseIdempotent ==
    [][ /\ \A s \in Shells :
              (StepIs("close", s) /\ closed[s])
                  => /\ last'.error = ""
                     /\ UNCHANGED <<closed, env, heap, persistent_process, procs>>
        /\ \A t \in Tasks :
              /\ (TaskCalls(t, "async_close") /\ closed[Sess]
                                               /\ persistent_process = NoProcess)
                    => /\ task'[t].pc = "idle"
                       /\ result'.op = "async_close" /\ result'.error = ""
                       /\ UNCHANGED <<closed, env, heap, persistent_process, procs>>
              /\ (TaskCalls(t, "async_close") /\ task'[t].pc = "idle")
                    => /\ result'.op = "async_close" /\ result'.error = ""
                       /\ closed'[Sess]
                       /\ persistent_process' = NoProcess
                       /\ UNCHANGED <<env, heap>>
              /\ (task[t].pc = "closing" /\ task'[t].pc = "idle")
                    => /\ result'.op = "async_close" /\ result'.error = ""
                       /\ closed'[Sess]
                       /\ persistent_process' = NoProcess
                       /\ UNCHANGED <<env, heap>>
      ]_vars

\* an async_close called on the closed session has returned, the child that
\* was started having been torn down
C10_Witness ==
    /\ result.op = "async_close"
    /\ result.closed_at_call
    /\ procs # <<>>
    /\ persistent_process = NoProcess

(***************************************************************************)
(* Claims about the result of a persistent execution, under SpecSession    *)
(***************************************************************************)

\* C11: the result of a command that completes has the exit status of the
\* command as its returncode; stated for the persistent session, where the
\* result is assembled by the session itself
C11_ExitStatusFidelity ==
    (result.op = "execute" /\ result.error = "")
        => result.returncode = ExitStatusOf(result.command)

\* C12: a call whose command is still running when the timeout of the read
\* elapses does not end like a successful one, with a result of exit status 0
C12_TimeoutReported ==
    (result.op = "execute" /\ result.outcome = "timeout")
        => ~(result.error = "" /\ result.returncode = 0)

\* the call of task t, which was reading, ends in this step, by a timeout
TimesOut(t) ==
    /\ task[t].pc = "reading"
    /\ task'[t].pc = "idle"
    /\ result'.outcome = "timeout"

\* C15: the step in which a call on the session ends by a timeout leaves the
\* handle of the session and every child process as they are: the child the
\* command was written to is alive and is the one the next command goes to
C15_TimeoutKeepsChild ==
    [][\A t \in Tasks : TimesOut(t) =>
          /\ persistent_process' = persistent_process
          /\ procs' = procs
          /\ procs'[task[t].pid].alive]_vars

\* a call has ended by a timeout and the session holds the live child the
\* command was written to
C15_Witness ==
    /\ result.op = "execute" /\ result.outcome = "timeout" /\ result.error = ""
    /\ persistent_process # NoProcess
    /\ procs[persistent_process].alive
    /\ procs[persistent_process].stdin # <<>>

\* C29: when a command executed with synchronization has finished with exit
\* status 0 on the session, the environment dump has been merged: the dict
\* holds the variables the child has in its environment
C29_ResyncBothModes ==
    [][\A t \in Tasks :
          (/\ task[t].pc = "reading" /\ task[t].sync_env
           /\ result'.op = "execute" /\ result'.error = "" /\ result'.outcome = "prompt"
           /\ ExitStatusOf(task[t].command) = 0)
              => \A k \in DOMAIN ShellOwnVars :
                    DictGet(get_all_env(Sess)', k, None) = ShellOwnVars[k]]_vars

(***************************************************************************)
(* Claims about the lock of the session, under SpecSession                 *)
(***************************************************************************)
Reading == {t \in Tasks : task[t].pc = "reading"}

\* C16: at most one execute call is between the write of its command to the
\* stdin of the child and the assembly of its result, and that call holds
\* the lock: no command is written while another call is reading
C16_MutualExclusion ==
    /\ Cardinality(Reading) <= 1
    /\ \A t \in Reading : lock.holder = t

\* a call is reading while another one waits for the lock
C16_Witness ==
    \E t, u \in Tasks : /\ task[t].pc = "reading"
                        /\ task[u].pc = "lock_wait"
                        /\ lock.holder = t
                        /\ u \in {lock.waiters[i] : i \in DOMAIN lock.waiters}

\* C17: the lock is held only by a call that is inside the block it guards
\* (it has written its command and reads, or it has been handed the lock
\* and is about to write): whichever way a call has left the block, by a
\* result or by an exception, it has not kept the lock, and the calls that
\* wait for the lock are not stuck behind a call that is over
C17_LockReleased ==
    /\ lock.holder # NoTask => task[lock.holder].pc \in {"reading", "lock_wait"}
    /\ \A i \in DOMAIN lock.waiters :
          /\ task[lock.waiters[i]].pc = "lock_wait"
          /\ lock.holder # NoTask

\* the write of a call has failed, the child having exited, and the lock has
\* passed to the call that was waiting for it
C17_Witness ==
    /\ result.op = "execute" /\ result.error = "RuntimeError" /\ result.outcome = "none"
    /\ procs # <<>>
    /\ lock.holder # NoTask
    /\ task[lock.holder].pc = "lock_wait"

\* the execute calls in progress that have their command written to the child
Written == {t \in Tasks : task[t].op = "execute" /\ task[t].pc = "reading"
                                                 /\ task[t].script = 0}

\* C18: commands are written to the child in the order the execute calls
\* were made: no call has its command written while a call made before it
\* is still on its way to the write
C18_SubmissionOrder ==
    \A t, u \in Tasks :
        (/\ task[t].op = "execute" /\ task[u].op = "execute"
         /\ task[t].call < task[u].call
         /\ u \in Written)
            => t \in Written

(***************************************************************************)
(* The read loop of SessionShell._execute_on_persistent_process, readline  *)
(* by readline: one caller makes its calls one after another on a session  *)
(* whose child has been started.  Time is counted in ticks; a line on the  *)
(* pipe carries the number of the call whose command printed it.  The      *)
(* loop over stderr (lines 200-210) reads its stream the same way and is   *)
(* left out.                                                               *)
(***************************************************************************)
Caller == 1
ReadTimeouts == {2, 3}

InitRead ==
    /\ closed = <<FALSE>>
    /\ env = <<Sess>>
    /\ heap = <<InitialEnv([environment |-> EmptyDict, setup_rc |-> <<>>], NoShell)>>
    /\ config = <<[setup_rc |-> <<>>]>>
    /\ parent = <<NoShell>>
    /\ last = NoCall
    /\ calls = 0
    /\ persistent_process = 1
    /\ procs = <<NewProcess(InitialEnv([environment |-> EmptyDict, setup_rc |-> <<>>],
                                      NoShell))>>
    /\ lock = FreeLock
    /\ task = [t \in Tasks |-> IdleTask]
    /\ result = IdleTask
    /\ child = <<>>
    /\ pipe = <<>>
    /\ reader = IdleReader
    /\ NoCallerState

\* the read loop is left with outcome (lines 212-227, then 139-141 of
\* execute): the lines read so far go into the result, returncode is 0
LeavesLoop(outcome) ==
    /\ reader' = [reader EXCEPT !.pc = "done", !.outcome = outcome, !.returncode = 0]
    /\ lock' = FreeLock
    /\ heap' = [heap EXCEPT ![env[Sess]] =
                   EnvAfterSessionExecute(@, reader.command, reader.sync_env)]

\* execute(command, timeout) on the started session: lines 163-171
read_execute(command, sync_env, timeout) ==
    LET pp == persistent_process
        call == [IdleReader EXCEPT !.call = calls + 1, !.command = command,
                                   !.sync_env = sync_env, !.timeout = timeout]
    IN  /\ reader.pc # "reading"
        /\ calls < MaxReadCalls
        /\ calls' = calls + 1
        /\ last' = [NoCall EXCEPT !.op = "session_execute", !.shell = Sess, !.task = Caller]
        /\ IF procs[pp].alive
           THEN /\ procs' = [procs EXCEPT ![pp].stdin = Append(@, command)]
                /\ child' = Append(child, [call |-> calls + 1, printed |-> 0])
                /\ reader' = [call EXCEPT !.pc = "reading"]
                /\ lock' = [holder |-> Caller, waiters |-> <<>>]
           ELSE /\ reader' = [call EXCEPT !.pc = "done", !.error = "RuntimeError"]
                /\ UNCHANGED <<procs, child, lock>>
        /\ UNCHANGED <<snapshots, hookVars, shellVars, persistent_process, task, result, pipe>>

\* the command the child is running prints a line; prompt: the line holds "$ "
child_prints(prompt) ==
    /\ child # <<>>
    /\ Head(child).printed < MaxLines
    /\ pipe' = Append(pipe, [call |-> Head(child).call, prompt |-> prompt])
    /\ child' = <<[Head(child) EXCEPT !.printed = @ + 1]>> \o Tail(child)
    /\ UNCHANGED <<snapshots, hookVars, shellVars, last, calls, sessionVars, reader>>

\* the command the child is running completes, and the child reads the next
child_completes ==
    /\ child # <<>>
    /\ child' = Tail(child)
    /\ UNCHANGED <<snapshots, hookVars, shellVars, last, calls, sessionVars, pipe, reader>>

\* the child exits
child_exits ==
    /\ procs[persistent_process].alive
    /\ procs' = [procs EXCEPT ![persistent_process].alive = FALSE]
    /\ child' = <<>>
    /\ UNCHANGED <<snapshots, hookVars, shellVars, last, calls, persistent_process, lock, task,
                   result, pipe,
                   reader>>

\* a tick passes while the readline of line 183 waits
time_passes ==
    /\ reader.pc = "reading"
    /\ pipe = <<>>
    /\ procs[persistent_process].alive
    /\ reader.waited < reader.timeout
    /\ reader' = [reader EXCEPT !.elapsed = @ + 1, !.waited = @ + 1]
    /\ UNCHANGED <<snapshots, hookVars, shellVars, last, calls, sessionVars, child, pipe>>

\* the readline returns a line before its timeout (lines 187-193)
read_line ==
    LET line == Head(pipe)
        read == [reader EXCEPT !.stdout_lines = Append(@, line), !.waited = 0]
    IN  /\ reader.pc = "reading"
        /\ pipe # <<>>
        /\ reader.waited < reader.timeout
        /\ pipe' = Tail(pipe)
        /\ IF line.prompt
           THEN /\ reader' = [read EXCEPT !.pc = "done", !.outcome = "prompt",
                                          !.returncode = 0]
                /\ lock' = FreeLock
                /\ heap' = [heap EXCEPT ![env[Sess]] =
                               EnvAfterSessionExecute(@, reader.command, reader.sync_env)]
           ELSE /\ reader' = read
                /\ UNCHANGED <<lock, heap>>
        /\ UNCHANGED <<snapshots, hookVars, closed, env, config, parent, last, calls,
                       persistent_process, procs,
                       task, result, child>>

\* the readline returns b'': the child has exited and the pipe is empty
read_eof ==
    /\ reader.pc = "reading"
    /\ pipe = <<>>
    /\ ~procs[persistent_process].alive
    /\ LeavesLoop("eof")
    /\ UNCHANGED <<snapshots, hookVars, closed, env, config, parent, last, calls,
                   persistent_process, procs,
                   task, result, child, pipe>>

\* the readline has waited for the timeout of the call: lines 194-197
read_timeout ==
    /\ reader.pc = "reading"
    /\ reader.waited = reader.timeout
    /\ LeavesLoop("timeout")
    /\ UNCHANGED <<snapshots, hookVars, closed, env, config, parent, last, calls,
                   persistent_process, procs,
                   task, result, child, pipe>>

NextRead ==
    \/ \E in \in SessionInputs, timeout \in ReadTimeouts :
          read_execute(in.command, in.sync_env, timeout)
    \/ \E prompt \in BOOLEAN : child_prints(prompt)
    \/ child_completes
    \/ child_exits
    \/ time_passes
    \/ read_line
    \/ read_eof
    \/ read_timeout

SpecRead == InitRead /\ [][NextRead]_vars

\* C13: the timeout asked for is a budget for the whole call: a call is not
\* still reading when more time than that has passed since its command was
\* written
C13_OverallBudget ==
    reader.pc = "reading" => reader.elapsed <= reader.timeout

\* C19: the result of a call holds no line that the command of another call
\* printed
C19_OutputIsolation ==
    \A i \in DOMAIN reader.stdout_lines : reader.stdout_lines[i].call = reader.call

\* C24: a call whose read loop was left neither by the end of the child's
\* output nor by a timeout has read every line its command prints: none is
\* still in the pipe and the command is not still running
C24_ReadsToTheEnd ==
    (reader.pc = "done" /\ reader.outcome = "prompt")
        => /\ \A i \in DOMAIN pipe : pipe[i].call # reader.call
           /\ \A i \in DOMAIN child : child[i].call # reader.call

(***************************************************************************)
(* StateShell (state_shell.py): one object, the Shell object Tracked being *)
(* its base.  execute wraps the command with the tracking commands, runs   *)
(* it with the execute of the base and reads the environment back from the *)
(* output of export -p.  stdout is a sequence of lines; the lines of the   *)
(* pwd block, which only set _last_pwd, are left out.                      *)
(***************************************************************************)
Tracked == 1

DECLARE == <<"d", "e", "c", "l", "a", "r", "e">>

\* how the /bin/sh of the host prints an exported variable for export -p:
\* declare -x K="V" (bash), export K="V" (bash as sh), export K='V' (dash)
ExportFormats == {"declare", "export_dq", "export_sq"}

ExportLine(fmt, key, value) ==
    CASE fmt = "declare" ->
            DECLARE \o <<" ", "-", "x", " ">> \o key \o <<"=", "\"">> \o value \o <<"\"">>
      [] fmt = "export_dq" ->
            EXPORT \o <<" ">> \o key \o <<"=", "\"">> \o value \o <<"\"">>
      [] OTHER -> ExportSQ(key, value)

RECURSIVE LinesOf(_)
LinesOf(lines) ==
    IF lines = {} THEN <<>>
    ELSE LET l == CHOOSE l \in lines : TRUE
         IN  <<l>> \o LinesOf(lines \ {l})

\* the exported variables of the child when export -p runs: those it was
\* started with (env=self._env) and the one the command exported
ChildEnv(command, e) ==
    LET m == QuotedMatchAt("'", command, 1)
    IN  IF m.ok THEN DictUpdate(ProcessEnviron(e), [k \in {m.key} |-> m.value])
        ELSE ProcessEnviron(e)

\* stdout of the wrapped command: a command that exits the shell leaves the
\* tracking commands unrun
ChildStdout(command, e, fmt) ==
    LET own == IF StdoutOf(command) = <<>> THEN <<>> ELSE <<StdoutOf(command)>>
        vars_ == ChildEnv(command, e)
    IN  IF StartsAt(command, EXIT, 1) THEN own
        ELSE own \o <<ENV_START>>
                 \o LinesOf({ExportLine(fmt, k, vars_[k]) : k \in DOMAIN vars_})
                 \o <<ENV_END>>

\* declare\s+-x\s+(\w+)="([^"]*)" at position i of s
DeclareMatchAt(s, i) ==
    LET wsStart == i + Len(DECLARE)
        flag == RunEnd(SpaceChars, s, wsStart)
        ws2 == flag + 2
        keyStart == RunEnd(SpaceChars, s, ws2)
        keyEnd == RunEnd(WordChars, s, keyStart)
        openAt == keyEnd + 1
        closeAt == RunEnd(Alphabet \ {"\""}, s, openAt + 1)
    IN  IF /\ StartsAt(s, DECLARE, i)
           /\ flag > wsStart /\ StartsAt(s, <<"-", "x">>, flag)
           /\ keyStart > ws2 /\ keyEnd > keyStart
           /\ StartsAt(s, <<"=", "\"">>, keyEnd)
           /\ closeAt <= Len(s)
        THEN [ok |-> TRUE, key |-> Slice(s, keyStart, keyEnd),
              \* group(2) if group(2) else group(4): an empty value gives None
              value |-> IF closeAt = openAt + 1 THEN None ELSE Slice(s, openAt + 1, closeAt),
              end |-> closeAt + 1]
        ELSE NoMatch

\* the alternation of line 216 at position i
EnvLineMatchAt(s, i) ==
    LET m == DeclareMatchAt(s, i)
    IN  IF m.ok THEN m ELSE QuotedMatchAt("\"", s, i)

\* re.search(pattern, line): the leftmost match, looked for from position i on
RECURSIVE SearchEnvLine(_, _)
SearchEnvLine(line, i) ==
    IF i > Len(line) THEN NoMatch
    ELSE LET m == EnvLineMatchAt(line, i)
         IN  IF m.ok THEN m ELSE SearchEnvLine(line, i + 1)

\* Shell._parse_and_update_env over the lines of export_output
RECURSIVE parse_and_update_env(_, _)
parse_and_update_env(e, lines) ==
    IF lines = <<>> THEN e
    ELSE LET m == SearchEnvLine(Head(lines), 1)
         IN  parse_and_update_env(
                 IF m.ok THEN DictUpdate(e, [k \in {m.key} |-> m.value]) ELSE e,
                 Tail(lines))

\* StateShell._update_state_from_output, lines 123-131: the lines between the
\* two markers, when both are there and something is between them
update_state_from_output(e, stdout) ==
    LET starts == {i \in DOMAIN stdout : stdout[i] = ENV_START}
        first == CHOOSE i \in starts : \A j \in starts : i <= j
        ends == {i \in DOMAIN stdout : stdout[i] = ENV_END /\ i > first + 1}
        closeAt == CHOOSE i \in ends : \A j \in ends : i <= j
    IN  IF starts = {} \/ ends = {} THEN e
        ELSE parse_and_update_env(e, SubSeq(stdout, first + 1, closeAt - 1))

InitState ==
    /\ closed = <<FALSE>>
    /\ env = <<Tracked>>
    /\ \E e \in ConfigEnvs :
          heap = <<InitialEnv([environment |-> e, setup_rc |-> <<>>], NoShell)>>
    /\ config = <<[setup_rc |-> <<>>]>>
    /\ parent = <<NoShell>>
    /\ last = NoCall
    /\ calls = 0
    /\ NoSession
    /\ NoCallerState

\* StateShell.execute when the execute of the base raises before it has a
\* result: the Shell is closed, the subprocess cannot be started, or it is
\* still running when the timeout elapses
state_execute_raises(command, check, sync_env, error) ==
    /\ closed[Tracked] => error = "RuntimeError"
    /\ last' = Raise([NoCall EXCEPT !.op = "execute", !.shell = Tracked,
                                    !.command = command, !.sync_env = sync_env,
                                    !.check = check], error)
    /\ UNCHANGED <<closed, env, heap, config, parent>>

\* StateShell.execute, lines 64-79, when the wrapped command runs to its end:
\* result is what the execute of the base returns or raises with, after is the
\* dict it leaves
state_execute(command, check, sync_env, dump, fmt) ==
    \E stdout \in {ChildStdout(command, heap[env[Tracked]], fmt)},
       after \in {EnvAfterExecute(heap[env[Tracked]], inject_state_tracking(command),
                                  sync_env, ExitStatusOf(command), dump)} :
        LET returncode == ExitStatusOf(command)
            raises == check /\ returncode # 0
        IN  /\ ~closed[Tracked]
            /\ heap' = [heap EXCEPT ![env[Tracked]] =
                           IF raises THEN after
                           ELSE update_state_from_output(after, stdout)]
            /\ last' = [NoCall EXCEPT !.op = "execute", !.shell = Tracked,
                                      !.command = command, !.sync_env = sync_env,
                                      !.check = check, !.returncode = returncode,
                                      !.error = IF raises THEN "RuntimeError" ELSE ""]
            /\ UNCHANGED <<closed, env, config, parent>>

NextState ==
    \/ \E k \in SetKeys, v \in SetValues : Call(setenv(Tracked, k, v))
    \/ Call(close(Tracked))
    \/ \E c \in StateCommands, chk \in BOOLEAN, sy \in BOOLEAN :
          \/ \E err \in ExecuteErrors : Call(state_execute_raises(c, chk, sy, err))
          \/ \E d \in DumpOutcomes, fmt \in ExportFormats :
                /\ DumpIsRun(sy, ExitStatusOf(c)) \/ d = "unavailable"
                /\ Call(state_execute(c, chk, sy, d, fmt))

SpecState == InitState /\ [][NextState]_vars

\* C20: an execute call made with sync_env = False leaves the dict of the
\* Shell as it was
C20_SyncDisabledFrame ==
    [][(calls' = calls + 1 /\ last'.op = "execute" /\ ~last'.sync_env)
          => heap' = heap]_vars

(***************************************************************************)
(* EchoMarkerHook (hooks.py): pre_execute wraps a command with two echo    *)
(* commands, the shell runs the wrapped text, post_execute removes the     *)
(* marker lines from stdout.  A stdout is a sequence of lines.             *)
(***************************************************************************)
MaxHookCalls == 2

\* lines 152, 229-236
CMD_MARKER_START ==
    <<"C", "M", "D", "_", "M", "A", "R", "K", "E", "R", "_", "S", "T", "A",
      "R", "T", "_">>
\* the same for the end
CMD_MARKER_END ==
    <<"C", "M", "D", "_", "M", "A", "R", "K", "E", "R", "_", "E", "N", "D",
      "_">>

Digits == <<"0", "1", "2", "3", "4", "5", "6", "7", "8", "9">>

\* str(n) of f"{n}"
RECURSIVE DecimalOf(_)
DecimalOf(n) ==
    IF n < 10 THEN <<Digits[n + 1]>>
    ELSE DecimalOf(n \div 10) \o <<Digits[(n % 10) + 1]>>

\* uuid.uuid4().hex[:8]: hexadecimal digits, all of one length; two calls may
\* get the same
Uuids == {<<"a">>, <<"b">>}

\* line 117: f"{self._execution_counter}_{uuid.uuid4().hex[:8]}"
ExecutionId(counter, uuid) == DecimalOf(counter) \o <<"_">> \o uuid

\* === text ===
Banner(text) == <<"=", "=", "=", " ">> \o text \o <<" ", "=", "=", "=">>

ECHO == <<"e", "c", "h", "o", " ", "\"">>
AND == <<" ", "&", "&", " ">>

\* line 152: echo "=== CMD_MARKER_START_id ===" && command && echo "=== CMD_MARKER_END_id ==="
Wrapped(command, id) ==
    ECHO \o Banner(CMD_MARKER_START \o id) \o <<"\"">> \o AND \o command \o AND
         \o ECHO \o Banner(CMD_MARKER_END \o id) \o <<"\"">>

\* p in line
Contains(line, p) == \E i \in 1..Len(line) : StartsAt(line, p, i)

\* the commands of an && list, as the shell reads the text
RECURSIVE SplitAnd(_)
SplitAnd(text) ==
    LET at == {i \in 1..Len(text) : StartsAt(text, AND, i)}
        i == CHOOSE i \in at : \A j \in at : i <= j
    IN  IF at = {} THEN <<text>>
        ELSE <<SubSeq(text, 1, i - 1)>> \o SplitAnd(SubSeq(text, i + Len(AND), Len(text)))

\* what the shell prints for one command of the list, and its exit status
RunOne(command) ==
    IF StartsAt(command, ECHO, 1)
    THEN [stdout |-> <<SubSeq(command, Len(ECHO) + 1, Len(command) - 1)>>, status |-> 0]
    ELSE [stdout |-> IF StdoutOf(command) = <<>> THEN <<>> ELSE <<StdoutOf(command)>>,
          status |-> ExitStatusOf(command)]

\* the shell runs an && list: the next command runs when the last one
\* exited with status 0
RECURSIVE RunList(_)
RunList(commands) ==
    LET one == RunOne(Head(commands))
        rest == RunList(Tail(commands))
    IN  IF Len(commands) = 1 \/ one.status # 0 THEN one
        ELSE [stdout |-> one.stdout \o rest.stdout, status |-> rest.status]

\* EchoMarkerHook._clean_markers: the lines that hold none of the four texts
RECURSIVE clean_markers(_, _)
clean_markers(lines, execution_id) ==
    IF lines = <<>> THEN <<>>
    ELSE LET line == Head(lines)
             skip == \/ Contains(line, CMD_MARKER_START \o execution_id)
                     \/ Contains(line, CMD_MARKER_END \o execution_id)
                     \/ Contains(line, Banner(CMD_MARKER_START \o execution_id))
                     \/ Contains(line, Banner(CMD_MARKER_END \o execution_id))
         IN  (IF skip THEN <<>> ELSE <<line>>) \o clean_markers(Tail(lines), execution_id)

\* EchoMarkerHook.__init__ (lines 83-87)
EchoMarkerHook(enabled) == [enabled |-> enabled, execution_counter |-> 0]

HookCommands == {cmdEcho, cmdExit}

\* a line an earlier command of the session printed late
LateLine == <<"l", "a", "t", "e">>

\* the marker ids of the calls before call i
EarlierIds(i) == {contexts[j].id : j \in 1..(i - 1)} \ {None}

\* what can be on stdout before the output of the command of call i: nothing,
\* a late line, or the end marker line of an earlier call
StrayLines(i) ==
    {<<>>, <<LateLine>>} \cup {<<Banner(CMD_MARKER_END \o id)>> : id \in EarlierIds(i)}

InitHook ==
    /\ closed = <<>>
    /\ env = <<>>
    /\ heap = <<>>
    /\ config = <<>>
    /\ parent = <<>>
    /\ last = NoCall
    /\ calls = 0
    /\ NoSession
    /\ snapshots = <<>>
    /\ \E enabled \in BOOLEAN : hook = EchoMarkerHook(enabled)
    /\ contexts = <<>>
    /\ records = <<>>

\* an ExecuteResult that has not been constructed
NoRecord == [command |-> None, returncode |-> 0, stdout |-> <<>>, stderr |-> <<>>,
             execution_time |-> 0]

\* the objects of call i: the ExecuteResult the shell constructs and the one
\* post_execute constructs
GivenRecord(i) == 2 * i - 1
NewRecord(i) == 2 * i

\* a _generate_execution_id that leaves the counter as it is
generate_execution_id_fixed(h) == h

\* EchoMarkerHook._generate_execution_id, line 115: the hook afterwards
generate_execution_id(h) == [h EXCEPT !.execution_counter = @ + 1]

\* EchoMarkerHook.pre_execute with a new context dict: the context holds the
\* id under _echo_marker_id; command and wrapped are what was passed and
\* what is returned
pre_execute(command, uuid) ==
    LET h == generate_execution_id(hook)
        id == ExecutionId(h.execution_counter, uuid)
        context == [command |-> command, id |-> None, wrapped |-> command,
                    pc |-> "wrapped", result |-> 0, returned |-> 0]
    IN  /\ Len(contexts) < MaxHookCalls
        /\ IF hook.enabled
           THEN /\ hook' = h
                /\ contexts' = Append(contexts, [context EXCEPT !.id = id,
                                                   !.wrapped = Wrapped(command, id)])
           ELSE /\ contexts' = Append(contexts, context)
                /\ UNCHANGED hook
        /\ records' = records \o <<NoRecord, NoRecord>>
        /\ UNCHANGED <<shellVars, last, calls, sessionVars, readVars, snapshots>>

\* the shell runs the text pre_execute returned and an ExecuteResult is
\* constructed from what it printed; stray is what was on stdout before
shell_executes(i, stray) ==
    /\ contexts[i].pc = "wrapped"
    /\ \E ran \in {RunList(SplitAnd(contexts[i].wrapped))} :
        /\ records' = [records EXCEPT ![GivenRecord(i)] =
                           [command |-> contexts[i].wrapped, returncode |-> ran.status,
                            stdout |-> stray \o ran.stdout, stderr |-> <<>>,
                            execution_time |-> 1]]
        /\ contexts' = [contexts EXCEPT ![i].pc = "executed", ![i].result = GivenRecord(i)]
        /\ UNCHANGED <<shellVars, last, calls, sessionVars, readVars, snapshots, hook>>

\* a post_execute that writes the cleaned fields into the record it was given
CleanedRecord_in_place(i) == contexts[i].result

\* lines 188-200: the cleaned result is a new ExecuteResult object
CleanedRecord(i) == NewRecord(i)

\* EchoMarkerHook.post_execute(command, result, context) of call i
post_execute(i) ==
    LET context == contexts[i]
        given == records[context.result]
        cleaned == [given EXCEPT !.command = context.command,
                                 !.stdout = clean_markers(given.stdout, context.id)]
        into == CleanedRecord(i)
    IN  /\ context.pc = "executed"
        /\ IF hook.enabled /\ context.id # None
           THEN /\ records' = [records EXCEPT ![into] = cleaned]
                /\ contexts' = [contexts EXCEPT ![i].pc = "done", ![i].returned = into]
           ELSE /\ contexts' = [contexts EXCEPT ![i].pc = "done",
                                                ![i].returned = context.result]
                /\ UNCHANGED records
        /\ UNCHANGED <<shellVars, last, calls, sessionVars, readVars, snapshots, hook>>

\* the caller assigns hook.enabled
set_enabled(enabled) ==
    /\ hook.enabled # enabled
    /\ hook' = [hook EXCEPT !.enabled = enabled]
    /\ UNCHANGED <<shellVars, last, calls, sessionVars, readVars, snapshots, contexts,
                   records>>

NextHook ==
    \/ \E c \in HookCommands, uuid \in Uuids : pre_execute(c, uuid)
    \/ \E i \in DOMAIN contexts : \E stray \in StrayLines(i) : shell_executes(i, stray)
    \/ \E i \in DOMAIN contexts : post_execute(i)
    \/ \E enabled \in BOOLEAN : set_enabled(enabled)

SpecHook == InitHook /\ [][NextHook]_vars

\* the lines of a result that hold the marker text of an id
HasMarker(lines, marker, id) == {n \in DOMAIN lines : Contains(lines[n], marker \o id)}

\* the calls that ran with an execution id
Marked == {i \in DOMAIN contexts : contexts[i].id # None /\ contexts[i].pc # "wrapped"}

\* the marked calls post_execute has cleaned
Cleaned == {i \in Marked : contexts[i].pc = "done" /\ contexts[i].returned # contexts[i].result}

\* C25 as stated: every wrapped command that has run printed the END marker of
\* its execution id, whatever its exit status.
C25_EndMarkerAlways ==
    \A i \in Marked :
        HasMarker(records[contexts[i].result].stdout, CMD_MARKER_END, contexts[i].id) # {}

\* the lines after the first START marker line and before the first END
\* marker line of an id
Between(lines, id) ==
    LET start == CHOOSE n \in HasMarker(lines, CMD_MARKER_START, id) :
                     \A m \in HasMarker(lines, CMD_MARKER_START, id) : n <= m
        end == CHOOSE n \in HasMarker(lines, CMD_MARKER_END, id) :
                   \A m \in HasMarker(lines, CMD_MARKER_END, id) : n <= m
    IN  SubSeq(lines, start + 1, end - 1)

\* C26 as stated: when both marker lines of the id are in the output, the
\* stdout of the cleaned result is exactly the lines between them.
C26_BodyBetweenMarkers ==
    \A i \in Cleaned :
        LET given == records[contexts[i].result].stdout
            id == contexts[i].id
        IN  (HasMarker(given, CMD_MARKER_START, id) # {}
             /\ HasMarker(given, CMD_MARKER_END, id) # {})
            => records[contexts[i].returned].stdout = Between(given, id)

\* C27: a pre_execute on an enabled hook raises the counter and stores an id
\* no earlier call has, and post_execute removes from stdout exactly the lines
\* that hold a marker of the id in its own context: every other line, the
\* marker line of another id included, stays where it was.
C27_UniqueIds ==
    [][/\ (Len(contexts') > Len(contexts) /\ hook.enabled) =>
            /\ hook'.execution_counter > hook.execution_counter
            /\ contexts'[Len(contexts')].id # None
            /\ \A j \in DOMAIN contexts : contexts[j].id # contexts'[Len(contexts')].id
       /\ \A i \in DOMAIN contexts :
            (contexts[i].pc = "executed" /\ contexts'[i].pc = "done"
             /\ contexts'[i].returned # contexts[i].result) =>
                LET own(line) == \/ Contains(line, CMD_MARKER_START \o contexts[i].id)
                                 \/ Contains(line, CMD_MARKER_END \o contexts[i].id)
                    kept(line) == ~own(line)
                IN  records'[contexts'[i].returned].stdout
                        = SelectSeq(records[contexts[i].result].stdout, kept)]_vars

\* two calls drew the same uuid part, and the later one, whose output began
\* with the end marker line of the earlier, was cleaned and still has that line
C27_Witness ==
    \E i, j \in Cleaned :
        /\ i < j
        /\ contexts[i].id[Len(contexts[i].id)] = contexts[j].id[Len(contexts[j].id)]
        /\ records[contexts[j].result].stdout[1] = Banner(CMD_MARKER_END \o contexts[i].id)
        /\ records[contexts[j].returned].stdout[1] = Banner(CMD_MARKER_END \o contexts[i].id)
        /\ Len(records[contexts[j].returned].stdout) < Len(records[contexts[j].result].stdout)

\* C28: post_execute leaves every existing record as it was; with the hook
\* enabled and an id in the context it returns a record that did not exist
\* before, with the original command and the returncode, stderr and
\* execution_time of the one it was given; with the hook disabled it returns
\* the record it was given.
C28_NewRecord ==
    [][\A i \in DOMAIN contexts :
        (contexts[i].pc = "executed" /\ contexts'[i].pc = "done") =>
            LET given == contexts[i].result
                returned == contexts'[i].returned
            IN  /\ \A r \in DOMAIN records : records[r] # NoRecord => records'[r] = records[r]
                /\ (hook.enabled /\ contexts[i].id # None) =>
                      /\ records[returned] = NoRecord
                      /\ records'[returned].command = contexts[i].command
                      /\ records'[returned].returncode = records[given].returncode
                      /\ records'[returned].stderr = records[given].stderr
                      /\ records'[returned].execution_time = records[given].execution_time
                /\ ~hook.enabled => returned = given]_vars

\* a failing wrapped command was cleaned into a new record, and a call made
\* with an id was given back its own record after the hook was disabled
C28_Witness ==
    /\ \E i \in Cleaned :
        /\ records[contexts[i].result].returncode = 42
        /\ records[contexts[i].result].command # contexts[i].command
        /\ records[contexts[i].returned].command = contexts[i].command
        /\ records[contexts[i].returned].returncode = 42
    /\ \E i \in Marked : contexts[i].pc = "done" /\ contexts[i].returned = contexts[i].result

(***************************************************************************)
(* Shell._parse_export_command and Shell._parse_and_update_env as          *)
(* functions of their text and of self._env: a Shell with one of           *)
(* PredictEnvs as its dict is given a command of one or two export         *)
(* statements, whose returned dict is kept, or a line of export -p.        *)
(***************************************************************************)
Predictor == 1

\* export KEY="VALUE" and export KEY=VALUE
ExportDQ(key, value) == EXPORT \o <<" ">> \o key \o <<"=", "\"">> \o value \o <<"\"">>
ExportBare(key, value) == EXPORT \o <<" ">> \o key \o <<"=">> \o value

Styles == {"double", "single", "bare"}

\* values without and with whitespace, and with references to A, which the
\* dict may hold, written $A, ${A} and $A}
PredictValues ==
    {<<"1">>, <<"2">>, <<"a", " ", "b">>, <<"$", "A">>, <<"$", "{", "A", "}", "-", "2">>,
     <<"$", "A", "}">>}

\* the export statements: a bare value has no whitespace
Exports ==
    {x \in [style : Styles, key : {kA, kK}, value : PredictValues] :
        x.style = "bare" => \A i \in DOMAIN x.value : x.value[i] \notin SpaceChars}

ExportText(x) ==
    CASE x.style = "double" -> ExportDQ(x.key, x.value)
      [] x.style = "single" -> ExportSQ(x.key, x.value)
      [] OTHER -> ExportBare(x.key, x.value)

\* first; second
TwoExports(first, second) == ExportText(first) \o <<";", " ">> \o ExportText(second)

PredictEnvs == {EmptyDict, [k \in {kA} |-> <<"1">>]}

InitPredict ==
    /\ closed = <<FALSE>>
    /\ env = <<Predictor>>
    /\ \E e \in PredictEnvs : heap = <<e>>
    /\ config = <<[setup_rc |-> <<>>]>>
    /\ parent = <<NoShell>>
    /\ last = NoCall
    /\ calls = 0
    /\ NoSession
    /\ NoCallerState

\* self._parse_export_command(command) is called and its dict returned; the
\* function changes nothing, so one call is made in a behaviour
predict(command) ==
    /\ last.op = "none"
    /\ last' = [NoCall EXCEPT !.op = "predict", !.shell = Predictor, !.command = command]
    /\ snapshots' = <<parse_export_command(command, get_all_env(Predictor))>>
    /\ UNCHANGED <<shellVars, calls, sessionVars, readVars, hookVars>>

\* the values of the variables export -p lists: empty, a word, two words
DumpValues == {<<>>, <<"1">>, <<"a", " ", "b">>}

\* self._parse_and_update_env(export_output) is called with the line export -p
\* prints for one variable, once in a behaviour
parse_export_output(fmt, key, value) ==
    /\ last.op = "none"
    /\ last' = [NoCall EXCEPT !.op = "parse_and_update_env", !.shell = Predictor,
                              !.command = ExportLine(fmt, key, value)]
    /\ heap' = [heap EXCEPT ![env[Predictor]] =
                   parse_and_update_env(@, <<ExportLine(fmt, key, value)>>)]
    /\ UNCHANGED <<closed, env, config, parent, calls, sessionVars, readVars, hookVars,
                   snapshots>>

NextPredict ==
    \/ \E x \in Exports : predict(ExportText(x))
    \/ \E x, y \in Exports : predict(TwoExports(x, y))
    \/ \E fmt \in ExportFormats, k \in {kA, kK}, v \in DumpValues :
          parse_export_output(fmt, k, v)

SpecPredict == InitPredict /\ [][NextPredict]_vars

\* the dict the call returned
Predicted == snapshots[1]

\* the call made was predict over the command
PredictOf(command) == last.op = "predict" /\ last.command = command

HasSpace(value) == \E i \in DOMAIN value : value[i] \in SpaceChars
HasRef(value) == \E i \in DOMAIN value : value[i] = "$"

C38_QuotedValueWhole ==
    \A x \in Exports :
        (PredictOf(ExportText(x)) /\ x.style # "bare" /\ ~HasRef(x.value))
            => Predicted[x.key] = x.value

\* the text of a $NAME or ${NAME} reference at position i of s, if one starts
\* there: the braces come in pairs
ReferenceAt(s, i) ==
    LET braced == i + 1 <= Len(s) /\ s[i + 1] = "{"
        nameStart == IF braced THEN i + 2 ELSE i + 1
        nameEnd == RunEnd(WordChars, s, nameStart)
        paired == nameEnd <= Len(s) /\ s[nameEnd] = "}"
    IN  IF /\ i <= Len(s) /\ s[i] = "$" /\ nameStart <= Len(s) /\ nameEnd > nameStart
           /\ braced => paired
        THEN [ok |-> TRUE, name |-> Slice(s, nameStart, nameEnd),
              end |-> IF braced THEN nameEnd + 1 ELSE nameEnd]
        ELSE [ok |-> FALSE, name |-> <<>>, end |-> i]

\* s from position i on with every reference to a key of e replaced by its
\* value and every other character as it is
RECURSIVE Replaced(_, _, _)
Replaced(s, i, e) ==
    IF i > Len(s) THEN <<>>
    ELSE LET r == ReferenceAt(s, i)
         IN  IF r.ok /\ r.name \in DOMAIN e
             THEN e[r.name] \o Replaced(s, r.end, e)
             ELSE <<s[i]>> \o Replaced(s, i + 1, e)

\* C39 as stated: the predicted value of an export whose value has no
\* whitespace is the value with its references to known names replaced and
\* every other character unchanged.
C39_ExpansionConservative ==
    \A x \in Exports :
        (PredictOf(ExportText(x)) /\ ~HasSpace(x.value))
            => Predicted[x.key] = Replaced(x.value, 1, get_all_env(Predictor))

\* C40 as stated: after the line declare -x K="V" or export K="V" is parsed,
\* getenv(K) is the string V, the empty string included.
C40_DumpKeepsEmpty ==
    \A fmt \in {"declare", "export_dq"}, k \in {kA, kK}, v \in DumpValues :
        (last.op = "parse_and_update_env" /\ last.command = ExportLine(fmt, k, v))
            => getenv(Predictor, k) = v

(***************************************************************************)
(* Claims about concurrent calls on one session, under SpecSession         *)
(***************************************************************************)

\* C32 as stated: a step in which a reading call changes the dict of the
\* session leaves the lock with that call.
C32_UpdateUnderLock ==
    [][\A t \in Tasks :
          (task[t].pc = "reading" /\ get_all_env(Sess)' # get_all_env(Sess))
              => lock'.holder = t]_vars

\* C33 as stated: the session has started at most one child process.
C33_OneChild == Len(procs) <= 1

\* how often the text occurs in s
Occurrences(text, s) == Cardinality({i \in 1..Len(s) : StartsAt(s, text, i)})

\* how often the pre_script was given to the child p: in its startup script
\* and as a command written to its stdin
TimesRun(script, p) ==
    Occurrences(script, build_startup_script(procs[p].environ, pre_scripts))
        + Cardinality({i \in DOMAIN procs[p].stdin : procs[p].stdin[i] = script})

\* C34 as stated: every child has been given each pre_script once.
C34_ScriptsOnce ==
    \A p \in DOMAIN procs :
        \A i \in DOMAIN pre_scripts : TimesRun(pre_scripts[i], p) = 1

\* C36: async_close marks the session closed in its first step, writes exit
\* to the child it holds if that child is alive and skips the write
\* otherwise, and returns at once when it holds none; when its wait ends,
\* by the exit of the child or by the end of the grace period, in which case
\* the child the session holds then is killed, it returns without an
\* exception and the session is closed and holds no child-process handle.
C36_CloseTerminates ==
    [][\A t \in Tasks :
          /\ TaskCalls(t, "async_close") =>
                /\ closed'[Sess]
                /\ persistent_process = NoProcess
                      => (task'[t].pc = "idle" /\ result'.error = "" /\ procs' = procs)
                /\ persistent_process # NoProcess =>
                      /\ task'[t].pc = "closing"
                      /\ procs'[persistent_process].stdin =
                            IF procs[persistent_process].alive
                            THEN Append(procs[persistent_process].stdin, EXIT)
                            ELSE procs[persistent_process].stdin
          /\ (task[t].pc = "closing" /\ task'[t].pc = "idle") =>
                /\ result'.op = "async_close" /\ result'.error = ""
                /\ closed'[Sess]
                /\ persistent_process' = NoProcess
                /\ \/ ~procs'[task[t].pid].alive
                   \/ persistent_process = NoProcess
                   \/ ~procs'[persistent_process].alive]_vars

\* an async_close has returned on a session whose only child had exited
\* before the call, so that exit was not written to it
C36_Witness ==
    /\ result.op = "async_close" /\ result.error = "" /\ ~result.closed_at_call
    /\ closed[Sess]
    /\ persistent_process = NoProcess
    /\ Len(procs) = 1
    /\ ~procs[1].alive
    /\ procs[1].stdin # <<>>
    /\ \A i \in DOMAIN procs[1].stdin : procs[1].stdin[i] # EXIT

(***************************************************************************)
(* A session with two pre_scripts, and the same callers                    *)
(***************************************************************************)
InitScripts ==
    /\ closed = <<FALSE>>
    /\ env = <<Sess>>
    /\ heap = <<InitialEnv([environment |-> EmptyDict, setup_rc |-> <<cmdA1, cmdB>>],
                           NoShell)>>
    /\ config = <<[setup_rc |-> <<cmdA1, cmdB>>]>>
    /\ parent = <<NoShell>>
    /\ last = NoCall
    /\ calls = 0
    /\ NoSession
    /\ NoCallerState

SpecScripts == InitScripts /\ [][NextSession]_vars

\* C35 as stated: a command of a caller is written to a child only after all
\* the pre_scripts have been written to it.
C35_ScriptsBeforeCommands ==
    \A p \in DOMAIN procs :
        \A i \in DOMAIN procs[p].stdin :
            procs[p].stdin[i] \in SessionCommands
                => \A j \in DOMAIN pre_scripts :
                      \E n \in 1..(i - 1) : procs[p].stdin[n] = pre_scripts[j]

====
